---- MODULE Spec2Model ----
(***************************************************************************)
(* A model of the token issuer's request pipeline: TokenHandler           *)
(* (handlers.go) and the GitHub helpers it calls (github.go).  A request   *)
(* is a method, an Authorization header and a query string; the secret     *)
(* store and the GitHub API are collaborators whose answers are chosen     *)
(* nondeterministically when a call returns.                               *)
(*                                                                         *)
(* Strings that the code inspects are modelled by their structure: an      *)
(* error message is the sequence of its words (strings.Contains is a       *)
(* contiguous sub-sequence test), a header is the sequence of its          *)
(* space-separated words, a repository name is the sequence of its         *)
(* characters, a query string is the sequence of its key=value pairs.      *)
(***************************************************************************)
EXTENDS Integers, Sequences, FiniteSets, TLC

\* ------------------------------------------------------------------ bounds

\* Longest query string, in key=value pairs.
MaxParams == 3

\* Number of request slots (goroutines serving a request).
NumReq == 2

Reqs == 1..NumReq

\* The request slot the single-request specification Spec drives.
MainReq == CHOOSE r \in Reqs : \A s \in Reqs : r <= s

\* ------------------------------------------------------ program constants

StatusOK == 200
StatusBadRequest == 400
StatusUnauthorized == 401
StatusForbidden == 403
StatusNotFound == 404
StatusMethodNotAllowed == 405
StatusUnprocessableEntity == 422
StatusInternalServerError == 500
StatusServiceUnavailable == 503

\* 10 * time.Minute, in seconds.
JWTLifetime == 600

\* ------------------------------------------------------------ string model

NoErr == << >>

\* strings.Contains on word sequences.
Contains(msg, sub) ==
  \E i \in 1..(Len(msg) - Len(sub) + 1) : SubSeq(msg, i, i + Len(sub) - 1) = sub

\* strings.ToLower on the scheme words that occur in the model's headers.
ToLower(w) ==
  CASE w = "Bearer" -> "bearer"
    [] w = "bEARER" -> "bearer"
    [] w = "Basic" -> "basic"
    [] OTHER -> w

\* strings.SplitN(s, " ", 2) on a header given as its words: the scheme and
\* the rest of the header (itself a word sequence), or the whole header when
\* it has no space.
SplitN2(h) ==
  IF Len(h) < 2 THEN << h >> ELSE << << h[1] >>, Tail(h) >>

\* The characters of the repository names that occur in the model.
Chars(name) ==
  CASE name = "o/r" -> << "o", "/", "r" >>
    [] name = "or" -> << "o", "r" >>
    [] name = "a/b/c" -> << "a", "/", "b", "/", "c" >>
    [] name = "/r" -> << "/", "r" >>
    [] name = "o/" -> << "o", "/" >>
    [] OTHER -> << >>

\* strings.Split(s, sep) on a character sequence: the segments between the
\* separators (one more segment than there are separators).
RECURSIVE Split(_, _)
Split(cs, sep) ==
  IF \A i \in 1..Len(cs) : cs[i] # sep
  THEN << cs >>
  ELSE LET i == CHOOSE j \in 1..Len(cs) :
                  cs[j] = sep /\ \A k \in 1..(j - 1) : cs[k] # sep
       IN << SubSeq(cs, 1, i - 1) >> \o Split(SubSeq(cs, i + 1, Len(cs)), sep)

\* All orders in which the elements of a finite set can be visited (Go
\* ranges over a map in an unspecified order).
RECURSIVE Orders(_)
Orders(S) ==
  IF S = {} THEN { << >> }
  ELSE UNION { { << x >> \o o : o \in Orders(S \ {x}) } : x \in S }

Range(s) == { s[i] : i \in 1..Len(s) }

\* ------------------------------------------------------------ the requests

\* r.Method is compared as it was sent: "post" is not http.MethodPost.
Methods == { "POST", "GET", "post" }

\* Authorization headers, as words: absent, no space, wrong scheme, bearer
\* in two spellings, and bearer tokens without or with a malformed claim.
AuthHeaders ==
  { << >>, << "Bearer" >>, << "Basic", "tok_or" >>, << "Bearer", "tok_or" >>,
    << "bEARER", "tok_or" >>, << "Bearer", "tok_none" >>, << "Bearer", "tok_bad" >> }

\* key=value pairs a query string is built from ("key=" and a bare "key"
\* both give the empty value).
Params ==
  { << "contents", "read" >>, << "contents", "write" >>,
    << "administration", "read" >>, << "administration", "write" >>,
    << "variables", "read" >>, << "bogus", "read" >>, << "contents", "admin" >>,
    << "contents", "" >>, << "administration", "Read" >> }

Queries == UNION { [1..n -> Params] : n \in 0..MaxParams }

\* r.Host, split at the separator of a Cloud Run tag URL
\* ({tag}---{service}-{hash}-{region}.a.run.app).
TagHost == << "dev", "---", "issuer-abc-uc.a.run.app" >>

ServiceHost == << "issuer-abc-uc.a.run.app" >>

\* The requests of the single-request specifications come through the tag
\* URL, where the logger prints.
Requests ==
  [ method : Methods, auth : AuthHeaders, query : Queries, host : { TagHost } ]

NoRequest == [ method |-> "", auth |-> << >>, query |-> << >>, host |-> << >> ]

\* url.Values: the keys of the query string and, per key, its values in order.
QueryKeys(q) == { q[i][1] : i \in 1..Len(q) }

RECURSIVE QueryValues(_, _)
QueryValues(q, k) ==
  IF q = << >> THEN << >>
  ELSE (IF Head(q)[1] = k THEN << Head(q)[2] >> ELSE << >>) \o QueryValues(Tail(q), k)

\* Parsing the scopes out of the query, visiting the keys in the order o:
\* the first key with several values or with a value other than read/write
\* ends the loop with its error; otherwise the key is added to the map.
DuplicateScopeMsg(param) == << "duplicate", "scope", param, "in", "request" >>

InvalidPermissionMsg(permission, param) ==
  << "invalid", "permission", permission, "for", "scope", param,
     "(must", "be", "'read'", "or", "'write')" >>

\* The details handed to the logger with the two errors of the loop.
DuplicateDetail(param) == << "duplicate:", param >>

InvalidPermissionDetail(param, permission) ==
  << "invalid", "permission:", param, "=", permission >>

\* ParseInOrder with the empty value let through.
RECURSIVE ParseInOrder_AllowEmpty(_, _, _)
ParseInOrder_AllowEmpty(q, o, scopes) ==
  IF o = << >> THEN [ err |-> NoErr, detail |-> << >>, scopes |-> scopes ]
  ELSE LET param == Head(o)
           values == QueryValues(q, param)
           permission == values[1]
       IN IF Len(values) > 1
          THEN [ err |-> DuplicateScopeMsg(param),
                 detail |-> DuplicateDetail(param), scopes |-> scopes ]
          ELSE IF permission # "read" /\ permission # "write" /\ permission # ""
          THEN [ err |-> InvalidPermissionMsg(permission, param),
                 detail |-> InvalidPermissionDetail(param, permission),
                 scopes |-> scopes ]
          ELSE ParseInOrder_AllowEmpty(q, Tail(o), scopes @@ (param :> permission))

RECURSIVE ParseInOrder(_, _, _)
ParseInOrder(q, o, scopes) ==
  IF o = << >> THEN [ err |-> NoErr, detail |-> << >>, scopes |-> scopes ]
  ELSE LET param == Head(o)
           values == QueryValues(q, param)
           permission == values[1]
       IN IF Len(values) > 1
          THEN [ err |-> DuplicateScopeMsg(param),
                 detail |-> DuplicateDetail(param), scopes |-> scopes ]
          ELSE IF permission # "read" /\ permission # "write"
          THEN [ err |-> InvalidPermissionMsg(permission, param),
                 detail |-> InvalidPermissionDetail(param, permission),
                 scopes |-> scopes ]
          ELSE ParseInOrder(q, Tail(o), scopes @@ (param :> permission))

\* Every result the parsing loop can end with, over the iteration orders.
ParseScopes(q) == { ParseInOrder(q, o, << >>) : o \in Orders(QueryKeys(q)) }

\* ------------------------------------------------------- the policy catalog

\* scopes.go is documented in README.md (Allowed Repository Permission
\* Scopes): the scope IDs of the table, in the table's order, and the scope
\* IDs whose only available level is read.
CatalogOrder ==
  << "actions", "administration", "attestations", "checks", "code_scanning",
     "statuses", "contents", "custom_properties", "dependabot_alerts",
     "dependabot_secrets", "deployments", "discussions", "environments",
     "issues", "merge_queues", "packages", "pages", "projects",
     "pull_requests", "security_advisories", "secret_scanning", "secrets",
     "variables", "workflows" >>

ReadOnlyScopes ==
  { "administration", "code_scanning", "dependabot_alerts",
    "security_advisories", "secret_scanning" }

AllowedScopes ==
  [ s \in Range(CatalogOrder) |->
      IF s \in ReadOnlyScopes THEN { "read" } ELSE { "read", "write" } ]

BlacklistedScopes == { }

\* AllowedScopes and BlacklistedScopes are package-level variables of
\* scopes.go, set when the process starts and read by ValidateScopes.
VARIABLE catalog

\* The catalog as scopes.go ships it.
ShippedCatalog ==
  [ AllowedScopes |-> AllowedScopes, BlacklistedScopes |-> BlacklistedScopes ]

\* The classification of one requested pair: the first violated rule in the
\* order block-list, allow-list, level; NoErr when the pair passes.
ScopeViolation(scope, level) ==
  IF scope \in catalog.BlacklistedScopes
  THEN << "scope", scope, "is", "not", "allowed" >>
  ELSE IF scope \notin DOMAIN catalog.AllowedScopes
  THEN << "scope", scope, "is", "not", "in", "allowlist" >>
  ELSE IF level \notin catalog.AllowedScopes[scope]
  THEN << "permission", level, "is", "not", "allowed", "for", "scope", scope >>
  ELSE NoErr

\* The errors ValidateScopes may return for a scope map: that of any
\* violating scope (the scopes are visited in an unspecified order), or
\* NoErr alone when every pair passes.
ValidateScopes(scopes) ==
  LET bad == { s \in DOMAIN scopes : ScopeViolation(s, scopes[s]) # NoErr }
  IN IF bad = {} THEN { NoErr }
     ELSE { ScopeViolation(s, scopes[s]) : s \in bad }

\* ---------------------------------------------------------------- identity

\* The repository claim of the assertions that occur in the model's headers;
\* "" when the assertion carries no such claim.
OIDCRepositoryClaim(token) ==
  CASE token = "tok_or" -> "o/r"
    [] token = "tok_bad" -> "or"
    [] OTHER -> ""

\* ExtractRepositoryFromOIDC: the repository claim, which must be present
\* and made of exactly two non-empty segments.  The argument is the rest of
\* the header after the scheme (a word sequence; an assertion is one word).
ExtractRepositoryFromOIDC(rest) ==
  LET claim == IF Len(rest) = 1 THEN OIDCRepositoryClaim(rest[1]) ELSE ""
      parts == Split(Chars(claim), "/")
  IN IF claim = ""
     THEN [ repository |-> "", err |-> << "repository", "claim", "missing" >> ]
     ELSE IF Len(parts) # 2 \/ parts[1] = << >> \/ parts[2] = << >>
     THEN [ repository |-> "", err |-> << "invalid", "repository", "claim" >> ]
     ELSE [ repository |-> claim, err |-> NoErr ]

\* ------------------------------------------------------- github.go helpers

\* The switch with the case of "secrets" writing the field of the case
\* above it.
PermissionField_WrongField(scopeID) ==
  CASE scopeID = "actions" -> "Actions"
    [] scopeID = "administration" -> "Administration"
    [] scopeID = "attestations" -> "Attestations"
    [] scopeID = "checks" -> "Checks"
    [] scopeID = "contents" -> "Contents"
    [] scopeID = "dependabot_secrets" -> "DependabotSecrets"
    [] scopeID = "deployments" -> "Deployments"
    [] scopeID = "discussions" -> "Discussions"
    [] scopeID = "environments" -> "Environments"
    [] scopeID = "issues" -> "Issues"
    [] scopeID = "merge_queues" -> "MergeQueues"
    [] scopeID = "packages" -> "Packages"
    [] scopeID = "pages" -> "Pages"
    [] scopeID = "projects" -> "RepositoryProjects"
    [] scopeID = "pull_requests" -> "PullRequests"
    [] scopeID = "secret_scanning" -> "SecretScanningAlerts"
    [] scopeID = "secrets" -> "SecretScanningAlerts"
    [] scopeID = "statuses" -> "Statuses"
    [] scopeID = "workflows" -> "Workflows"
    [] OTHER -> ""

\* The switch of CreateInstallationToken: the InstallationPermissions field
\* a scope ID is written to; "" for the default branch.
PermissionField(scopeID) ==
  CASE scopeID = "actions" -> "Actions"
    [] scopeID = "administration" -> "Administration"
    [] scopeID = "attestations" -> "Attestations"
    [] scopeID = "checks" -> "Checks"
    [] scopeID = "contents" -> "Contents"
    [] scopeID = "dependabot_secrets" -> "DependabotSecrets"
    [] scopeID = "deployments" -> "Deployments"
    [] scopeID = "discussions" -> "Discussions"
    [] scopeID = "environments" -> "Environments"
    [] scopeID = "issues" -> "Issues"
    [] scopeID = "merge_queues" -> "MergeQueues"
    [] scopeID = "packages" -> "Packages"
    [] scopeID = "pages" -> "Pages"
    [] scopeID = "projects" -> "RepositoryProjects"
    [] scopeID = "pull_requests" -> "PullRequests"
    [] scopeID = "secret_scanning" -> "SecretScanningAlerts"
    [] scopeID = "secrets" -> "Secrets"
    [] scopeID = "statuses" -> "Statuses"
    [] scopeID = "workflows" -> "Workflows"
    [] OTHER -> ""

\* The field-by-field copy of VerifyRequestedScopes: the scope ID a granted
\* field is read back as; "" for a field the function does not read.
GrantedScopeID(field) ==
  CASE field = "Actions" -> "actions"
    [] field = "Administration" -> "administration"
    [] field = "Attestations" -> "attestations"
    [] field = "Checks" -> "checks"
    [] field = "Contents" -> "contents"
    [] field = "DependabotSecrets" -> "dependabot_secrets"
    [] field = "Deployments" -> "deployments"
    [] field = "Discussions" -> "discussions"
    [] field = "Environments" -> "environments"
    [] field = "Issues" -> "issues"
    [] field = "MergeQueues" -> "merge_queues"
    [] field = "Packages" -> "packages"
    [] field = "Pages" -> "pages"
    [] field = "RepositoryProjects" -> "projects"
    [] field = "PullRequests" -> "pull_requests"
    [] field = "SecretScanningAlerts" -> "secret_scanning"
    [] field = "Secrets" -> "secrets"
    [] field = "Statuses" -> "statuses"
    [] field = "Workflows" -> "workflows"
    [] OTHER -> ""

\* An InstallationPermissions value is the function from its non-nil fields
\* to their values; the nil pointer is NilPermissions.
NilPermissions == [ nil |-> TRUE ]

\* The permissions CreateInstallationToken builds from the scope map.
BuildPermissions(scopes) ==
  [ f \in { PermissionField(s) : s \in DOMAIN scopes } |->
      scopes[CHOOSE s \in DOMAIN scopes : PermissionField(s) = f] ]

UnknownScopes(scopes) == { s \in DOMAIN scopes : PermissionField(s) = "" }

\* grantedMap of VerifyRequestedScopes.
GrantedMap(granted) ==
  LET read == { f \in DOMAIN granted : GrantedScopeID(f) # "" }
  IN [ s \in { GrantedScopeID(f) : f \in read } |->
         granted[CHOOSE f \in read : GrantedScopeID(f) = s] ]

\* MissingScopes with the loop left at the first scope found missing.
MissingScopes_FirstOnly(requested, grantedMap) ==
  LET all == { s \in DOMAIN requested :
                 s \notin DOMAIN grantedMap \/ grantedMap[s] # requested[s] }
  IN IF all = {} THEN {} ELSE { CHOOSE s \in all : TRUE }

\* The requested scopes VerifyRequestedScopes appends to `missing`.
MissingScopes(requested, grantedMap) ==
  { s \in DOMAIN requested :
      s \notin DOMAIN grantedMap \/ grantedMap[s] # requested[s] }

NoPermissionsMsg == << "GitHub", "API", "returned", "no", "permissions" >>

FewerScopesPrefix ==
  << "GitHub", "API", "returned", "fewer", "scopes", "than", "requested", "(missing:" >>

FewerScopesMsg(missing) == FewerScopesPrefix \o missing \o << ")" >>

\* VerifyRequestedScopes with the level comparison left out: a requested
\* scope counts as granted as soon as the grant has an entry for it.
VerifyRequestedScopes_IgnoreLevel(requested, granted) ==
  IF granted = NilPermissions THEN { NoPermissionsMsg }
  ELSE LET missing == { s \in DOMAIN requested : s \notin DOMAIN GrantedMap(granted) }
       IN IF missing # {} THEN { FewerScopesMsg(o) : o \in Orders(missing) }
          ELSE { NoErr }

\* VerifyRequestedScopes with the levels ordered: a granted "write" also
\* satisfies a requested "read".
VerifyRequestedScopes_WriteCoversRead(requested, granted) ==
  IF granted = NilPermissions THEN { NoPermissionsMsg }
  ELSE LET grantedMap == GrantedMap(granted)
           missing == { s \in DOMAIN requested :
                          \/ s \notin DOMAIN grantedMap
                          \/ (grantedMap[s] # requested[s] /\ grantedMap[s] # "write") }
       IN IF missing # {} THEN { FewerScopesMsg(o) : o \in Orders(missing) }
          ELSE { NoErr }

\* VerifyRequestedScopes: the errors it may return (the missing list is in
\* the order the requested map was visited), NoErr alone when all is granted.
VerifyRequestedScopes(requested, granted) ==
  IF granted = NilPermissions THEN { NoPermissionsMsg }
  ELSE LET missing == MissingScopes(requested, GrantedMap(granted))
       IN IF missing # {} THEN { FewerScopesMsg(o) : o \in Orders(missing) }
          ELSE { NoErr }

NotInstalledMsg(repository) ==
  << "GitHub", "App", "is", "not", "installed", "on", "repository", repository >>

FindFailedMsg(err) == << "failed", "to", "find", "installation:" >> \o err

NilIDMsg(repository) ==
  << "installation", "ID", "is", "nil", "for", "repository", repository >>

InvalidRepositoryMsg(repository) ==
  << "invalid", "repository", "format:", repository >>

InsufficientMsg ==
  << "insufficient", "permissions", "for", "requested", "scopes" >>

SuspendedMsg ==
  << "GitHub", "App", "installation", "is", "suspended", "or", "has",
     "insufficient", "permissions" >>

CreateFailedMsg(err) ==
  << "failed", "to", "create", "installation", "token:" >> \o err

UnknownScopeMsg(scopeID) == << "unknown", "scope", "ID:", scopeID >>

GitHubAPIErrorMsg(err) == << "GitHub", "API", "error:" >> \o err

\* GetPrivateKey, given what the secret store answers: the error of client
\* creation, the error of the access call, the payload (whether it is PEM,
\* the key its bytes hold as PKCS1, the key they hold as PKCS8: "" when they
\* do not parse, "ec" for a key that is not RSA) and the error of Close.
SecretAnswers ==
  LET ans(ce, ae, pem, p1, p8, cl) ==
        [ clientErr |-> ce, accessErr |-> ae, pem |-> pem, pkcs1 |-> p1,
          pkcs8 |-> p8, closeErr |-> cl ]
      fail == << "rpc", "error" >>
  IN { ans(fail, NoErr, FALSE, "", "", NoErr),
       ans(NoErr, fail, FALSE, "", "", NoErr),
       ans(NoErr, NoErr, FALSE, "", "", NoErr),
       ans(NoErr, NoErr, TRUE, "", "", NoErr),
       ans(NoErr, NoErr, TRUE, "", "ec", NoErr),
       ans(NoErr, NoErr, TRUE, "rsa_ok", "", NoErr),
       ans(NoErr, NoErr, TRUE, "", "rsa_pkcs8", NoErr),
       ans(NoErr, NoErr, TRUE, "rsa_small", "", NoErr),
       ans(NoErr, NoErr, TRUE, "rsa_ok", "", fail) }

DeadlineErr == << "context", "deadline", "exceeded" >>

\* What the secret store answers to a call whose context has expired.
SecretDeadlineAnswer ==
  [ clientErr |-> NoErr, accessErr |-> DeadlineErr, pem |-> FALSE, pkcs1 |-> "",
    pkcs8 |-> "", closeErr |-> NoErr ]

\* GetPrivateKey without the assertion that the PKCS8 key is an RSA key.
GetPrivateKey_AnyPKCS8(ans) ==
  IF ans.clientErr # NoErr
  THEN [ key |-> "",
         err |-> << "failed", "to", "create", "Secret", "Manager", "client:" >>
                   \o ans.clientErr ]
  ELSE IF ans.accessErr # NoErr
  THEN [ key |-> "",
         err |-> << "failed", "to", "retrieve", "private", "key", "from", "Secret",
                    "Manager:" >> \o ans.accessErr ]
  ELSE IF ~ans.pem
  THEN [ key |-> "",
         err |-> << "failed", "to", "decode", "PEM", "block", "from", "private", "key" >> ]
  ELSE IF ans.pkcs1 = "" /\ ans.pkcs8 = ""
  THEN [ key |-> "", err |-> << "failed", "to", "parse", "private", "key:", "x509" >> ]
  ELSE LET key == IF ans.pkcs1 # "" THEN ans.pkcs1 ELSE ans.pkcs8
       IN IF ans.closeErr # NoErr
          THEN [ key |-> key,
                 err |-> << "failed", "to", "close", "Secret", "Manager", "client:" >>
                           \o ans.closeErr ]
          ELSE [ key |-> key, err |-> NoErr ]

GetPrivateKey(ans) ==
  IF ans.clientErr # NoErr
  THEN [ key |-> "",
         err |-> << "failed", "to", "create", "Secret", "Manager", "client:" >>
                   \o ans.clientErr ]
  ELSE IF ans.accessErr # NoErr
  THEN [ key |-> "",
         err |-> << "failed", "to", "retrieve", "private", "key", "from", "Secret",
                    "Manager:" >> \o ans.accessErr ]
  ELSE IF ~ans.pem
  THEN [ key |-> "",
         err |-> << "failed", "to", "decode", "PEM", "block", "from", "private", "key" >> ]
  ELSE IF ans.pkcs1 = "" /\ ans.pkcs8 = ""
  THEN [ key |-> "", err |-> << "failed", "to", "parse", "private", "key:", "x509" >> ]
  ELSE IF ans.pkcs1 = "" /\ ans.pkcs8 = "ec"
  THEN [ key |-> "", err |-> << "key", "is", "not", "an", "RSA", "private", "key" >> ]
  ELSE LET key == IF ans.pkcs1 # "" THEN ans.pkcs1 ELSE ans.pkcs8
       IN IF ans.closeErr # NoErr
          THEN [ key |-> key,
                 err |-> << "failed", "to", "close", "Secret", "Manager", "client:" >>
                           \o ans.closeErr ]
          ELSE [ key |-> key, err |-> NoErr ]

\* Minting times (seconds).
Times == { 1000, 5000 }

NoJWT == [ alg |-> "", iat |-> 0, exp |-> 0, iss |-> "", key |-> "" ]

\* CreateJWT with the ten minutes added to the seconds as a plain number.
CreateJWT_MinutesAsSeconds(privateKey, appID, now) ==
  IF privateKey = ""
  THEN [ jwt |-> NoJWT, err |-> << "private", "key", "is", "nil" >> ]
  ELSE IF privateKey = "rsa_small"
  THEN [ jwt |-> NoJWT,
         err |-> << "failed", "to", "sign", "JWT:", "message", "too", "long" >> ]
  ELSE [ jwt |-> [ alg |-> "RS256", iat |-> now, exp |-> now + JWTLifetime \div 60,
                   iss |-> appID, key |-> privateKey ],
         err |-> NoErr ]

\* CreateJWT at time now (the local `now` of line 71, kept in the handler's
\* locals); a key too small for RS256 makes signing fail.
CreateJWT(privateKey, appID, now) ==
  IF privateKey = ""
  THEN [ jwt |-> NoJWT, err |-> << "private", "key", "is", "nil" >> ]
  ELSE IF privateKey = "rsa_small"
  THEN [ jwt |-> NoJWT,
         err |-> << "failed", "to", "sign", "JWT:", "message", "too", "long" >> ]
  ELSE [ jwt |-> [ alg |-> "RS256", iat |-> now, exp |-> now + JWTLifetime,
                   iss |-> appID, key |-> privateKey ],
         err |-> NoErr ]

\* ------------------------------------------------------- the GitHub answers

\* Texts an upstream error may carry.
ErrTexts ==
  { << "internal", "server", "error" >>,
    << "app", "not", "installed", "in", "cache" >>,
    << "account", "suspended" >>,
    << "insufficient", "permissions" >>,
    << "fewer", "scopes" >> }

InstallIDs == { 12345, 99999 }

\* FindRepositoryInstallation: the installation's ID (a sequence of at most
\* one element: empty for a nil ID), the status of the response (0 for a nil
\* response) and the error.
LookupAnswers ==
  { [ id |-> i, status |-> StatusOK, err |-> NoErr ] :
      i \in { << >> } \cup { << n >> : n \in InstallIDs } }
  \cup { [ id |-> << >>, status |-> s, err |-> t ] :
           s \in { 0, StatusNotFound, StatusInternalServerError }, t \in ErrTexts }

DeadlineAnswer == [ id |-> << >>, status |-> 0, err |-> DeadlineErr ]

\* The part of GetInstallationID after the lookup has returned.
GetInstallationID(repository, ans) ==
  IF ans.err # NoErr
  THEN IF ans.status # 0 /\ ans.status = StatusNotFound
       THEN [ id |-> 0, err |-> NotInstalledMsg(repository) ]
       ELSE [ id |-> 0, err |-> FindFailedMsg(ans.err) ]
  ELSE IF ans.id = << >>
  THEN [ id |-> 0, err |-> NilIDMsg(repository) ]
  ELSE [ id |-> ans.id[1], err |-> NoErr ]

\* The permission sets the upstream may return with a token.
GrantedPermissions ==
  { NilPermissions } \cup
  UNION { [ F -> { "read", "write" } ] :
            F \in SUBSET { "Contents", "Administration" } }
  \cup { [ Contents |-> "write", Metadata |-> "read" ],
         [ Contents |-> "read", Administration |-> "read", Metadata |-> "read" ] }

\* CreateInstallationToken of the API: the token (a sequence of at most one
\* element), the status of the response (0 for a nil response), the error.
IssueAnswers ==
  { [ token |-> << [ Token |-> "ghs_1", ExpiresAt |-> 3600, Permissions |-> p ] >>,
      status |-> 201, err |-> NoErr ] : p \in GrantedPermissions }
  \cup { [ token |-> << >>, status |-> s, err |-> t ] :
           s \in { 0, StatusForbidden, StatusUnprocessableEntity,
                   StatusInternalServerError },
           t \in ErrTexts }

IssueDeadlineAnswer == [ token |-> << >>, status |-> 0, err |-> DeadlineErr ]

\* The answers to an issuance call that asks for the given permissions: those
\* above, a token granting exactly what was asked, and the tokens granting
\* all of it but one field.
IssueAnswersTo(permissions) ==
  IssueAnswers \cup
  { [ token |-> << [ Token |-> "ghs_1", ExpiresAt |-> 3600, Permissions |-> p ] >>,
      status |-> 201, err |-> NoErr ] :
      p \in { permissions } \cup
            { [ f \in DOMAIN permissions \ { g } |-> permissions[f] ] :
                g \in DOMAIN permissions } }
  \cup { [ token |-> << [ Token |-> "ghs_2", ExpiresAt |-> 3600,
                          Permissions |-> permissions ] >>,
           status |-> 201, err |-> NoErr ] }

\* token.GetPermissions().
GetPermissions(token) == IF token = << >> THEN NilPermissions ELSE token[1].Permissions

\* The part of CreateInstallationToken after the API call has returned: the
\* results it may give.
CreateInstallationToken(scopes, ans) ==
  IF ans.err # NoErr
  THEN IF ans.status # 0 /\ ans.status = StatusForbidden
       THEN { [ token |-> << >>, err |-> InsufficientMsg ] }
       ELSE IF ans.status # 0 /\ ans.status = StatusUnprocessableEntity
       THEN { [ token |-> << >>, err |-> SuspendedMsg ] }
       ELSE { [ token |-> << >>, err |-> CreateFailedMsg(ans.err) ] }
  ELSE { IF e # NoErr THEN [ token |-> << >>, err |-> e ]
                      ELSE [ token |-> ans.token, err |-> NoErr ] :
           e \in VerifyRequestedScopes(scopes, GetPermissions(ans.token)) }

\* ---------------------------------------------------- handler's responses

ErrorResponse(statusCode, message) ==
  [ status |-> statusCode, body |-> [ error |-> message ] ]

\* time.Time.Format(time.RFC3339) of an expiry given in seconds.
FormatRFC3339(t) == << "RFC3339", t >>

\* TokenResponse with the granted permissions in the scopes field.
TokenResponse_Granted(token, scopes) ==
  [ status |-> StatusOK,
    body |-> [ token |-> token[1].Token,
               expires_at |-> FormatRFC3339(token[1].ExpiresAt),
               scopes |-> GrantedMap(token[1].Permissions) ] ]

\* The TokenResponse of a successful request.
TokenResponse(token, scopes) ==
  [ status |-> StatusOK,
    body |-> [ token |-> token[1].Token,
               expires_at |-> FormatRFC3339(token[1].ExpiresAt),
               scopes |-> scopes ] ]

\* LookupErrorResponse looking for "not found" in the error text.
LookupErrorResponse_NotFound(err) ==
  IF Contains(err, << "not", "found" >>)
  THEN ErrorResponse(StatusForbidden, err)
  ELSE ErrorResponse(StatusServiceUnavailable, GitHubAPIErrorMsg(err))

\* The handler's answer to a failed GetInstallationID.
LookupErrorResponse(err) ==
  IF Contains(err, << "not", "installed" >>)
  THEN ErrorResponse(StatusForbidden, err)
  ELSE ErrorResponse(StatusServiceUnavailable, GitHubAPIErrorMsg(err))

\* The handler's answer to a failed CreateInstallationToken.
IssueErrorResponse(err) ==
  IF \/ Contains(err, << "insufficient", "permissions" >>)
     \/ Contains(err, << "fewer", "scopes" >>)
     \/ Contains(err, << "suspended" >>)
  THEN ErrorResponse(StatusForbidden, err)
  ELSE ErrorResponse(StatusServiceUnavailable, GitHubAPIErrorMsg(err))

\* ------------------------------------------------------------- the logger

\* A nil scope map handed to LogResponse.
NilScopes == [ nil |-> TRUE ]

\* A RequestLogger with the entries it has printed.  startTime and the
\* timestamp and duration_ms of the entries are clock readings and are left
\* out; scopes is never set by the handler.
NewRequestLogger(host) ==
  [ enabled |-> Contains(host, << "---" >>), repo |-> "", printed |-> << >> ]

NoLogger == [ enabled |-> FALSE, repo |-> "", printed |-> << >> ]

SetRepository(l, repo) == [ l EXCEPT !.repo = repo ]

logJSON(l, entry) == [ l EXCEPT !.printed = Append(@, entry) ]

\* The scope names of an entry are kept as a set: the order of the printed
\* list is the order of the map iteration.
LogRequest(l, scopes) ==
  IF ~l.enabled THEN l
  ELSE logJSON(l, [ event |-> "request_received", repo |-> l.repo,
                    scopes |-> DOMAIN scopes ])

LogValidationError(l, errorType, detail) ==
  IF ~l.enabled THEN l
  ELSE logJSON(l, [ event |-> "validation_failed", repo |-> l.repo,
                    error_type |-> errorType, detail |-> detail ])

LogGitHubAPICall(l, operation, success, errorMsg) ==
  IF ~l.enabled THEN l
  ELSE IF errorMsg # NoErr
  THEN logJSON(l, [ event |-> "github_api", repo |-> l.repo,
                    operation |-> operation, success |-> success,
                    error |-> errorMsg ])
  ELSE logJSON(l, [ event |-> "github_api", repo |-> l.repo,
                    operation |-> operation, success |-> success ])

LogResponse(l, statusCode, grantedScopes) ==
  IF ~l.enabled THEN l
  ELSE IF grantedScopes # NilScopes
  THEN logJSON(l, [ event |-> "response_sent", repo |-> l.repo,
                    status |-> statusCode,
                    scopes_granted |-> DOMAIN grantedScopes ])
  ELSE logJSON(l, [ event |-> "response_sent", repo |-> l.repo,
                    status |-> statusCode ])

\* ---------------------------------------------------------------- the state

VARIABLES
  env,    \* the process environment (read-only after start)
  req,    \* per request slot: the request being served
  pc,     \* per request slot: the handler's position
  ctx,    \* per request slot: the deadline context: none, active, expired, cancelled
  loc,    \* per request slot: the handler's local variables
  calls,  \* per request slot: the collaborator calls made, with their answers
  resp,   \* per request slot: the responses written to the ResponseWriter
  tt,     \* the table entry a unit test of a pure function is running
  logger  \* per request slot: the RequestLogger and the entries it printed

vars == << env, catalog, req, pc, ctx, loc, calls, resp, tt, logger >>

\* No unit test is running: the state of tt while the handler serves.
NoTest ==
  [ requested |-> << >>, granted |-> NilPermissions, ran |-> FALSE, err |-> NoErr ]

\* The environments the process may be started in: fully configured, the
\* project under its alternative name, no app ID, no project.
Envs ==
  { [ GITHUB_APP_ID |-> "app1", GOOGLE_CLOUD_PROJECT |-> "p1", GCP_PROJECT |-> "" ],
    [ GITHUB_APP_ID |-> "app2", GOOGLE_CLOUD_PROJECT |-> "", GCP_PROJECT |-> "p2" ],
    [ GITHUB_APP_ID |-> "", GOOGLE_CLOUD_PROJECT |-> "p1", GCP_PROJECT |-> "" ],
    [ GITHUB_APP_ID |-> "app1", GOOGLE_CLOUD_PROJECT |-> "", GCP_PROJECT |-> "" ] }

InitLoc ==
  [ oidcToken |-> << >>, repository |-> "", scopes |-> << >>, appID |-> "",
    projectID |-> "", privateKey |-> "", now |-> 0, jwtToken |-> NoJWT,
    installationID |-> 0, token |-> << >> ]

Init ==
  /\ env \in Envs
  /\ catalog = ShippedCatalog
  /\ req = [ r \in Reqs |-> NoRequest ]
  /\ pc = [ r \in Reqs |-> "idle" ]
  /\ ctx = [ r \in Reqs |-> "none" ]
  /\ loc = [ r \in Reqs |-> InitLoc ]
  /\ calls = [ r \in Reqs |-> << >> ]
  /\ resp = [ r \in Reqs |-> << >> ]
  /\ tt = NoTest
  /\ logger = [ r \in Reqs |-> NoLogger ]

\* writeJSON / writeError followed by the handler's return: the response is
\* written, the deferred cancel runs.
Respond(r, response) ==
  /\ resp' = [ resp EXCEPT ![r] = Append(@, response) ]
  /\ pc' = [ pc EXCEPT ![r] = "done" ]
  /\ ctx' = [ ctx EXCEPT ![r] = IF @ = "none" THEN "none" ELSE "cancelled" ]

\* The logger calls of a step leave the request's logger as l.
Logged(r, l) == logger' = [ logger EXCEPT ![r] = l ]

\* The handler moves on to position p with its locals updated.
Continue(r, p, newLoc) ==
  /\ pc' = [ pc EXCEPT ![r] = p ]
  /\ loc' = [ loc EXCEPT ![r] = newLoc ]
  /\ UNCHANGED << resp, ctx >>

\* StartCall with the request's own context passed on instead of the
\* deadline context.
StartCall_RequestContext(r, op, arg) ==
  calls' = [ calls EXCEPT ![r] =
               Append(@, [ op |-> op, ctx |-> "request", arg |-> arg,
                           jwt |-> loc[r].jwtToken, returned |-> FALSE,
                           ans |-> << >> ]) ]

\* StartCall with the client of the first slot's request used by every
\* request (a client kept in a package-level variable).
StartCall_SharedClient(r, op, arg) ==
  calls' = [ calls EXCEPT ![r] =
               Append(@, [ op |-> op, ctx |-> "deadline", arg |-> arg,
                           jwt |-> loc[MainReq].jwtToken, returned |-> FALSE,
                           ans |-> << >> ]) ]

\* A collaborator call is started / has returned with answer ans.
StartCall(r, op, arg) ==
  calls' = [ calls EXCEPT ![r] =
               Append(@, [ op |-> op, ctx |-> "deadline", arg |-> arg,
                           jwt |-> loc[r].jwtToken, returned |-> FALSE,
                           ans |-> << >> ]) ]

EndCall(r, ans) ==
  calls' = [ calls EXCEPT ![r][Len(calls[r])] =
               [ @ EXCEPT !.returned = TRUE, !.ans = ans ] ]

\* The outstanding call has been cancelled by the deadline.
Cancelled(r) ==
  /\ ctx[r] = "expired"
  /\ calls[r][Len(calls[r])].ctx = "deadline"

\* A request out of the given ones arrives at a free slot: the server starts
\* TokenHandler for it.
ArriveFrom(r, requests) ==
  /\ pc[r] = "idle"
  /\ \E q \in requests :
       /\ req' = [ req EXCEPT ![r] = q ]
       /\ Logged(r, NewRequestLogger(q.host))
  /\ pc' = [ pc EXCEPT ![r] = "method" ]
  /\ UNCHANGED << env, catalog, tt, ctx, loc, calls, resp >>

Arrive(r) == ArriveFrom(r, Requests)

\* CheckMethod with GET refused by name instead of POST let through by name.
CheckMethod_DenyList(r) ==
  /\ pc[r] = "method"
  /\ IF req[r].method = "GET"
     THEN /\ Respond(r, ErrorResponse(StatusMethodNotAllowed,
                                      << "method", "not", "allowed" >>))
          /\ Logged(r, LogResponse(
                         LogValidationError(logger[r], "method", << req[r].method >>),
                         StatusMethodNotAllowed, NilScopes))
          /\ UNCHANGED << env, catalog, tt, req, loc, calls >>
     ELSE /\ pc' = [ pc EXCEPT ![r] = "auth" ]
          /\ ctx' = [ ctx EXCEPT ![r] = "active" ]
          /\ UNCHANGED << env, catalog, tt, req, loc, calls, resp, logger >>

\* Lines 814-823: the method check and the creation of the deadline context.
CheckMethod(r) ==
  /\ pc[r] = "method"
  /\ IF req[r].method # "POST"
     THEN /\ Respond(r, ErrorResponse(StatusMethodNotAllowed,
                                      << "method", "not", "allowed" >>))
          /\ Logged(r, LogResponse(
                         LogValidationError(logger[r], "method", << req[r].method >>),
                         StatusMethodNotAllowed, NilScopes))
          /\ UNCHANGED << env, catalog, tt, req, loc, calls >>
     ELSE /\ pc' = [ pc EXCEPT ![r] = "auth" ]
          /\ ctx' = [ ctx EXCEPT ![r] = "active" ]
          /\ UNCHANGED << env, catalog, tt, req, loc, calls, resp, logger >>

\* CheckAuthHeader with the scheme compared as it was sent.
CheckAuthHeader_CaseSensitive(r) ==
  /\ pc[r] = "auth"
  /\ LET authHeader == req[r].auth
         parts == SplitN2(authHeader)
     IN IF authHeader = << >>
        THEN /\ Respond(r, ErrorResponse(StatusUnauthorized,
                     << "missing", "Authorization", "header" >>))
             /\ Logged(r, LogResponse(
                            LogValidationError(logger[r], "auth",
                                               << "missing", "header" >>),
                            StatusUnauthorized, NilScopes))
             /\ UNCHANGED loc
        ELSE IF Len(parts) # 2 \/ parts[1][1] # "bearer"
        THEN /\ Respond(r, ErrorResponse(StatusUnauthorized,
                     << "invalid", "Authorization", "header", "format" >>))
             /\ Logged(r, LogResponse(
                            LogValidationError(logger[r], "auth",
                                               << "invalid", "format" >>),
                            StatusUnauthorized, NilScopes))
             /\ UNCHANGED loc
        ELSE /\ Continue(r, "oidc", [ loc[r] EXCEPT !.oidcToken = parts[2] ])
             /\ UNCHANGED logger
  /\ UNCHANGED << env, catalog, tt, req, calls >>

\* Lines 825-842: the Authorization header.
CheckAuthHeader(r) ==
  /\ pc[r] = "auth"
  /\ LET authHeader == req[r].auth
         parts == SplitN2(authHeader)
     IN IF authHeader = << >>
        THEN /\ Respond(r, ErrorResponse(StatusUnauthorized,
                     << "missing", "Authorization", "header" >>))
             /\ Logged(r, LogResponse(
                            LogValidationError(logger[r], "auth",
                                               << "missing", "header" >>),
                            StatusUnauthorized, NilScopes))
             /\ UNCHANGED loc
        ELSE IF Len(parts) # 2 \/ ToLower(parts[1][1]) # "bearer"
        THEN /\ Respond(r, ErrorResponse(StatusUnauthorized,
                     << "invalid", "Authorization", "header", "format" >>))
             /\ Logged(r, LogResponse(
                            LogValidationError(logger[r], "auth",
                                               << "invalid", "format" >>),
                            StatusUnauthorized, NilScopes))
             /\ UNCHANGED loc
        ELSE /\ Continue(r, "oidc", [ loc[r] EXCEPT !.oidcToken = parts[2] ])
             /\ UNCHANGED logger
  /\ UNCHANGED << env, catalog, tt, req, calls >>

\* ExtractIdentity without the check of the extraction's error.
ExtractIdentity_Unchecked(r) ==
  /\ pc[r] = "oidc"
  /\ LET res == ExtractRepositoryFromOIDC(loc[r].oidcToken)
     IN /\ Continue(r, "parse", [ loc[r] EXCEPT !.repository = res.repository ])
        /\ Logged(r, SetRepository(logger[r], res.repository))
  /\ UNCHANGED << env, catalog, tt, req, calls >>

\* Lines 844-852: the repository identity.
ExtractIdentity(r) ==
  /\ pc[r] = "oidc"
  /\ LET res == ExtractRepositoryFromOIDC(loc[r].oidcToken)
     IN IF res.err # NoErr
        THEN /\ Respond(r, ErrorResponse(StatusUnauthorized,
                     << "invalid", "OIDC", "token:" >> \o res.err))
             /\ Logged(r, LogResponse(
                            LogValidationError(logger[r], "oidc",
                                               << "invalid", "token" >>),
                            StatusUnauthorized, NilScopes))
             /\ UNCHANGED loc
        ELSE /\ Continue(r, "parse", [ loc[r] EXCEPT !.repository = res.repository ])
             /\ Logged(r, SetRepository(logger[r], res.repository))
  /\ UNCHANGED << env, catalog, tt, req, calls >>

\* ParseQuery without the check that at least one scope was given.
ParseQuery_EmptyAllowed(r) ==
  /\ pc[r] = "parse"
  /\ \E res \in ParseScopes(req[r].query) :
       IF res.err # NoErr
       THEN /\ Respond(r, ErrorResponse(StatusBadRequest, res.err))
            /\ Logged(r, LogResponse(
                           LogValidationError(logger[r], "scope", res.detail),
                           StatusBadRequest, NilScopes))
            /\ UNCHANGED loc
       ELSE /\ Continue(r, "validate", [ loc[r] EXCEPT !.scopes = res.scopes ])
            /\ Logged(r, LogRequest(logger[r], res.scopes))
  /\ UNCHANGED << env, catalog, tt, req, calls >>

\* Lines 854-885: the scopes of the query string, at least one.
ParseQuery(r) ==
  /\ pc[r] = "parse"
  /\ \E res \in ParseScopes(req[r].query) :
       IF res.err # NoErr
       THEN /\ Respond(r, ErrorResponse(StatusBadRequest, res.err))
            /\ Logged(r, LogResponse(
                           LogValidationError(logger[r], "scope", res.detail),
                           StatusBadRequest, NilScopes))
            /\ UNCHANGED loc
       ELSE IF DOMAIN res.scopes = {}
       THEN /\ Respond(r, ErrorResponse(StatusBadRequest,
                    << "at", "least", "one", "scope", "is", "required" >>))
            /\ Logged(r, LogResponse(
                           LogValidationError(logger[r], "scope",
                                              << "none", "provided" >>),
                           StatusBadRequest, NilScopes))
            /\ UNCHANGED loc
       ELSE /\ Continue(r, "validate", [ loc[r] EXCEPT !.scopes = res.scopes ])
            /\ Logged(r, LogRequest(logger[r], res.scopes))
  /\ UNCHANGED << env, catalog, tt, req, calls >>

\* Validate without the return after the error response.
Validate_NoReturn(r) ==
  /\ pc[r] = "validate"
  /\ \E e \in ValidateScopes(loc[r].scopes) :
       /\ resp' = [ resp EXCEPT ![r] =
                      IF e # NoErr
                      THEN Append(@, ErrorResponse(StatusBadRequest, e)) ELSE @ ]
       /\ Logged(r, IF e # NoErr
                    THEN LogResponse(LogValidationError(logger[r], "scope", e),
                                     StatusBadRequest, NilScopes)
                    ELSE logger[r])
       /\ pc' = [ pc EXCEPT ![r] = "config" ]
  /\ UNCHANGED << env, catalog, tt, req, ctx, loc, calls >>

\* Validate with the validator's error only logged: nothing is written and
\* the handler goes on.
Validate_LogOnly(r) ==
  /\ pc[r] = "validate"
  /\ Continue(r, "config", loc[r])
  /\ \E e \in ValidateScopes(loc[r].scopes) :
       Logged(r, IF e # NoErr THEN LogValidationError(logger[r], "scope", e)
                 ELSE logger[r])
  /\ UNCHANGED << env, catalog, tt, req, calls >>

\* Validate with a fixed message written in place of the validator's error.
Validate_FixedMessage(r) ==
  /\ pc[r] = "validate"
  /\ \E e \in ValidateScopes(loc[r].scopes) :
       IF e # NoErr
       THEN /\ Respond(r, ErrorResponse(StatusBadRequest, << "invalid", "scopes" >>))
            /\ Logged(r, LogResponse(LogValidationError(logger[r], "scope", e),
                                     StatusBadRequest, NilScopes))
            /\ UNCHANGED loc
       ELSE /\ Continue(r, "config", loc[r])
            /\ UNCHANGED logger
  /\ UNCHANGED << env, catalog, tt, req, calls >>

\* Validate with the status chosen by the rule the reported scope violates:
\* 403 for a level the allow-list does not permit, 400 otherwise.
Validate_StatusByRule(r) ==
  /\ pc[r] = "validate"
  /\ \E e \in ValidateScopes(loc[r].scopes) :
       IF e # NoErr
       THEN /\ Respond(r, ErrorResponse(IF e[1] = "permission" THEN StatusForbidden
                                        ELSE StatusBadRequest, e))
            /\ Logged(r, LogResponse(LogValidationError(logger[r], "scope", e),
                                     IF e[1] = "permission" THEN StatusForbidden
                                     ELSE StatusBadRequest, NilScopes))
            /\ UNCHANGED loc
       ELSE /\ Continue(r, "config", loc[r])
            /\ UNCHANGED logger
  /\ UNCHANGED << env, catalog, tt, req, calls >>

\* Lines 890-896: the policy.
Validate(r) ==
  /\ pc[r] = "validate"
  /\ \E e \in ValidateScopes(loc[r].scopes) :
       IF e # NoErr
       THEN /\ Respond(r, ErrorResponse(StatusBadRequest, e))
            /\ Logged(r, LogResponse(LogValidationError(logger[r], "scope", e),
                                     StatusBadRequest, NilScopes))
            /\ UNCHANGED loc
       ELSE /\ Continue(r, "config", loc[r])
            /\ UNCHANGED logger
  /\ UNCHANGED << env, catalog, tt, req, calls >>

\* ReadConfig without the returns after the error responses.
ReadConfig_NoReturn(r) ==
  /\ pc[r] = "config"
  /\ LET appID == env.GITHUB_APP_ID
         projectID == IF env.GOOGLE_CLOUD_PROJECT # ""
                      THEN env.GOOGLE_CLOUD_PROJECT ELSE env.GCP_PROJECT
         missing == IF appID = ""
                    THEN << ErrorResponse(StatusInternalServerError,
                                          << "GITHUB_APP_ID", "not", "configured" >>) >>
                    ELSE << >>
         unset == IF projectID = ""
                  THEN << ErrorResponse(StatusInternalServerError,
                                        << "GCP", "project", "ID", "not", "configured" >>) >>
                  ELSE << >>
         afterAppID == IF appID = ""
                       THEN LogResponse(
                              LogValidationError(logger[r], "config",
                                                 << "GITHUB_APP_ID", "not", "set" >>),
                              StatusInternalServerError, NilScopes)
                       ELSE logger[r]
     IN /\ resp' = [ resp EXCEPT ![r] = @ \o missing \o unset ]
        /\ Logged(r, IF projectID = ""
                     THEN LogResponse(
                            LogValidationError(afterAppID, "config",
                                               << "GCP", "project", "ID", "not", "set" >>),
                            StatusInternalServerError, NilScopes)
                     ELSE afterAppID)
        /\ pc' = [ pc EXCEPT ![r] = "getkey" ]
        /\ loc' = [ loc EXCEPT ![r].appID = appID, ![r].projectID = projectID ]
        /\ UNCHANGED ctx
  /\ UNCHANGED << env, catalog, tt, req, calls >>

\* Lines 898-918: the app ID and the project ID of the environment.
ReadConfig(r) ==
  /\ pc[r] = "config"
  /\ LET appID == env.GITHUB_APP_ID
         projectID == IF env.GOOGLE_CLOUD_PROJECT # ""
                      THEN env.GOOGLE_CLOUD_PROJECT ELSE env.GCP_PROJECT
     IN IF appID = ""
        THEN /\ Respond(r, ErrorResponse(StatusInternalServerError,
                     << "GITHUB_APP_ID", "not", "configured" >>))
             /\ Logged(r, LogResponse(
                            LogValidationError(logger[r], "config",
                                               << "GITHUB_APP_ID", "not", "set" >>),
                            StatusInternalServerError, NilScopes))
             /\ UNCHANGED loc
        ELSE IF projectID = ""
        THEN /\ Respond(r, ErrorResponse(StatusInternalServerError,
                     << "GCP", "project", "ID", "not", "configured" >>))
             /\ Logged(r, LogResponse(
                            LogValidationError(logger[r], "config",
                                               << "GCP", "project", "ID", "not", "set" >>),
                            StatusInternalServerError, NilScopes))
             /\ UNCHANGED loc
        ELSE /\ Continue(r, "getkey",
                         [ loc[r] EXCEPT !.appID = appID, !.projectID = projectID ])
             /\ UNCHANGED logger
  /\ UNCHANGED << env, catalog, tt, req, calls >>

\* CallGetPrivateKey with the key kept across requests: when another
\* request holds a fetched key, it is used and no fetch is made.
CallGetPrivateKey_Cached(r) ==
  /\ pc[r] = "getkey"
  /\ IF \E s \in Reqs \ { r } : loc[s].privateKey # ""
     THEN /\ \E s \in Reqs \ { r } :
               /\ loc[s].privateKey # ""
               /\ Continue(r, "jwt", [ loc[r] EXCEPT !.privateKey = loc[s].privateKey ])
          /\ UNCHANGED calls
     ELSE /\ StartCall(r, "get_private_key", loc[r].projectID)
          /\ pc' = [ pc EXCEPT ![r] = "getkey_wait" ]
          /\ UNCHANGED << ctx, loc, resp >>
  /\ UNCHANGED << env, catalog, tt, req, logger >>

\* Line 921: the secret fetch is started.
CallGetPrivateKey(r) ==
  /\ pc[r] = "getkey"
  /\ StartCall(r, "get_private_key", loc[r].projectID)
  /\ pc' = [ pc EXCEPT ![r] = "getkey_wait" ]
  /\ UNCHANGED << env, catalog, tt, req, ctx, loc, resp, logger >>

\* Lines 921-928: the secret fetch returns.
ReturnGetPrivateKey(r) ==
  /\ pc[r] = "getkey_wait"
  /\ \E ans \in IF Cancelled(r) THEN { SecretDeadlineAnswer } ELSE SecretAnswers :
       LET res == GetPrivateKey(ans)
       IN /\ EndCall(r, ans)
          /\ IF res.err # NoErr
             THEN /\ Respond(r, ErrorResponse(StatusInternalServerError, res.err))
                  /\ Logged(r, LogResponse(
                                 LogGitHubAPICall(logger[r], "get_private_key",
                                                  FALSE, res.err),
                                 StatusInternalServerError, NilScopes))
                  /\ UNCHANGED loc
             ELSE /\ Continue(r, "jwt", [ loc[r] EXCEPT !.privateKey = res.key ])
                  /\ Logged(r, LogGitHubAPICall(logger[r], "get_private_key",
                                                TRUE, NoErr))
  /\ UNCHANGED << env, catalog, tt, req >>

\* Lines 930-941: the assertion is minted.
MintJWT(r) ==
  /\ pc[r] = "jwt"
  /\ \E now \in Times :
       LET res == CreateJWT(loc[r].privateKey, loc[r].appID, now)
       IN IF res.err # NoErr
          THEN /\ Respond(r, ErrorResponse(StatusInternalServerError,
                       << "failed", "to", "create", "JWT:" >> \o res.err))
               /\ Logged(r, LogResponse(
                              LogGitHubAPICall(logger[r], "create_jwt", FALSE, res.err),
                              StatusInternalServerError, NilScopes))
               /\ UNCHANGED loc
          ELSE /\ Continue(r, "lookup",
                           [ loc[r] EXCEPT !.now = now, !.jwtToken = res.jwt ])
               /\ Logged(r, LogGitHubAPICall(logger[r], "create_jwt", TRUE, NoErr))
  /\ UNCHANGED << env, catalog, tt, req, calls >>

\* Lines 944 and 96-103: GetInstallationID up to the lookup call.
CallLookup(r) ==
  /\ pc[r] = "lookup"
  /\ LET parts == Split(Chars(loc[r].repository), "/")
         err == InvalidRepositoryMsg(loc[r].repository)
     IN IF Len(parts) # 2
        THEN /\ Respond(r, LookupErrorResponse(err))
             /\ Logged(r, LogResponse(
                            LogGitHubAPICall(logger[r], "get_installation_id",
                                             FALSE, err),
                            LookupErrorResponse(err).status, NilScopes))
             /\ UNCHANGED << loc, calls >>
        ELSE /\ StartCall(r, "find_installation", parts)
             /\ pc' = [ pc EXCEPT ![r] = "lookup_wait" ]
             /\ UNCHANGED << ctx, loc, resp, logger >>
  /\ UNCHANGED << env, catalog, tt, req >>

\* ReturnLookup with the lookup repeated after a failure other than not-found.
ReturnLookup_Retry(r) ==
  /\ pc[r] = "lookup_wait"
  /\ \E ans \in IF Cancelled(r) THEN { DeadlineAnswer } ELSE LookupAnswers :
       LET res == GetInstallationID(loc[r].repository, ans)
       IN /\ EndCall(r, ans)
          /\ IF res.err # NoErr /\ ans.status = StatusNotFound
             THEN /\ Respond(r, LookupErrorResponse(res.err))
                  /\ Logged(r, LogResponse(
                                 LogGitHubAPICall(logger[r], "get_installation_id",
                                                  FALSE, res.err),
                                 LookupErrorResponse(res.err).status, NilScopes))
                  /\ UNCHANGED loc
             ELSE IF res.err # NoErr
             THEN /\ Continue(r, "lookup", loc[r])
                  /\ UNCHANGED logger
             ELSE /\ Continue(r, "issue", [ loc[r] EXCEPT !.installationID = res.id ])
                  /\ Logged(r, LogGitHubAPICall(logger[r], "get_installation_id",
                                                TRUE, NoErr))
  /\ UNCHANGED << env, catalog, tt, req >>

\* Lines 103-116 and 945-956: the lookup returns.
ReturnLookup(r) ==
  /\ pc[r] = "lookup_wait"
  /\ \E ans \in IF Cancelled(r) THEN { DeadlineAnswer } ELSE LookupAnswers :
       LET res == GetInstallationID(loc[r].repository, ans)
       IN /\ EndCall(r, ans)
          /\ IF res.err # NoErr
             THEN /\ Respond(r, LookupErrorResponse(res.err))
                  /\ Logged(r, LogResponse(
                                 LogGitHubAPICall(logger[r], "get_installation_id",
                                                  FALSE, res.err),
                                 LookupErrorResponse(res.err).status, NilScopes))
                  /\ UNCHANGED loc
             ELSE /\ Continue(r, "issue", [ loc[r] EXCEPT !.installationID = res.id ])
                  /\ Logged(r, LogGitHubAPICall(logger[r], "get_installation_id",
                                                TRUE, NoErr))
  /\ UNCHANGED << env, catalog, tt, req >>

\* CallIssue with the default branch of the switch skipping the scope ID:
\* the API is called with the fields of the known scope IDs.
CallIssue_SkipUnknown(r) ==
  /\ pc[r] = "issue"
  /\ LET known == DOMAIN loc[r].scopes \ UnknownScopes(loc[r].scopes)
     IN StartCall(r, "create_token",
                  [ id |-> loc[r].installationID,
                    permissions |->
                      BuildPermissions([ s \in known |-> loc[r].scopes[s] ]) ])
  /\ pc' = [ pc EXCEPT ![r] = "issue_wait" ]
  /\ UNCHANGED << ctx, loc, resp, logger >>
  /\ UNCHANGED << env, catalog, tt, req >>

\* Lines 959 and 119-175: CreateInstallationToken up to the API call.
CallIssue(r) ==
  /\ pc[r] = "issue"
  /\ IF UnknownScopes(loc[r].scopes) # {}
     THEN /\ \E s \in UnknownScopes(loc[r].scopes) :
               /\ Respond(r, IssueErrorResponse(UnknownScopeMsg(s)))
               /\ Logged(r, LogResponse(
                              LogGitHubAPICall(logger[r], "create_installation_token",
                                               FALSE, UnknownScopeMsg(s)),
                              IssueErrorResponse(UnknownScopeMsg(s)).status,
                              NilScopes))
          /\ UNCHANGED << loc, calls >>
     ELSE /\ StartCall(r, "create_token",
                       [ id |-> loc[r].installationID,
                         permissions |-> BuildPermissions(loc[r].scopes) ])
          /\ pc' = [ pc EXCEPT ![r] = "issue_wait" ]
          /\ UNCHANGED << ctx, loc, resp, logger >>
  /\ UNCHANGED << env, catalog, tt, req >>

\* ReturnIssue with a failed API call dropped and the issuance repeated.
ReturnIssue_Retry(r) ==
  /\ pc[r] = "issue_wait"
  /\ \E ans \in IF Cancelled(r) THEN { IssueDeadlineAnswer }
                ELSE IssueAnswersTo(calls[r][Len(calls[r])].arg.permissions) :
       \E res \in CreateInstallationToken(loc[r].scopes, ans) :
          /\ IF ans.err # NoErr
             THEN calls' = [ calls EXCEPT ![r] = SubSeq(@, 1, Len(@) - 1) ]
             ELSE EndCall(r, ans)
          /\ IF ans.err # NoErr
             THEN /\ Continue(r, "issue", loc[r])
                  /\ UNCHANGED logger
             ELSE IF res.err # NoErr
             THEN /\ Respond(r, IssueErrorResponse(res.err))
                  /\ Logged(r, LogResponse(
                                 LogGitHubAPICall(logger[r], "create_installation_token",
                                                  FALSE, res.err),
                                 IssueErrorResponse(res.err).status, NilScopes))
                  /\ UNCHANGED loc
             ELSE /\ Respond(r, TokenResponse(res.token, loc[r].scopes))
                  /\ Logged(r, LogResponse(
                                 LogGitHubAPICall(logger[r], "create_installation_token",
                                                  TRUE, NoErr),
                                 StatusOK, loc[r].scopes))
                  /\ loc' = [ loc EXCEPT ![r].token = res.token ]
  /\ UNCHANGED << env, catalog, tt, req >>

\* Lines 175-192 and 960-983: the API call returns, the grant is verified,
\* the response is written.
ReturnIssue(r) ==
  /\ pc[r] = "issue_wait"
  /\ \E ans \in IF Cancelled(r) THEN { IssueDeadlineAnswer }
                ELSE IssueAnswersTo(calls[r][Len(calls[r])].arg.permissions) :
       \E res \in CreateInstallationToken(loc[r].scopes, ans) :
          /\ EndCall(r, ans)
          /\ IF res.err # NoErr
             THEN /\ Respond(r, IssueErrorResponse(res.err))
                  /\ Logged(r, LogResponse(
                                 LogGitHubAPICall(logger[r], "create_installation_token",
                                                  FALSE, res.err),
                                 IssueErrorResponse(res.err).status, NilScopes))
                  /\ UNCHANGED loc
             ELSE /\ Respond(r, TokenResponse(res.token, loc[r].scopes))
                  /\ Logged(r, LogResponse(
                                 LogGitHubAPICall(logger[r], "create_installation_token",
                                                  TRUE, NoErr),
                                 StatusOK, loc[r].scopes))
                  /\ loc' = [ loc EXCEPT ![r].token = res.token ]
  /\ UNCHANGED << env, catalog, tt, req >>

\* The 30 seconds of the deadline context pass while the handler is at or
\* between its network calls.
Timeout(r) ==
  /\ ctx[r] = "active"
  /\ pc[r] \in { "getkey", "getkey_wait", "jwt", "lookup", "lookup_wait",
                 "issue", "issue_wait" }
  /\ ctx' = [ ctx EXCEPT ![r] = "expired" ]
  /\ UNCHANGED << env, catalog, tt, req, pc, loc, calls, resp, logger >>

\* The response has been sent: everything of the request is dropped.
Discard(r) ==
  /\ pc[r] = "done"
  /\ req' = [ req EXCEPT ![r] = NoRequest ]
  /\ pc' = [ pc EXCEPT ![r] = "idle" ]
  /\ ctx' = [ ctx EXCEPT ![r] = "none" ]
  /\ loc' = [ loc EXCEPT ![r] = InitLoc ]
  /\ calls' = [ calls EXCEPT ![r] = << >> ]
  /\ resp' = [ resp EXCEPT ![r] = << >> ]
  /\ logger' = [ logger EXCEPT ![r] = NoLogger ]
  /\ UNCHANGED << env, catalog, tt >>

\* One request at a time is served in slot MainReq.
Next ==
  \/ Arrive(MainReq)
  \/ CheckMethod(MainReq)
  \/ CheckAuthHeader(MainReq)
  \/ ExtractIdentity(MainReq)
  \/ ParseQuery(MainReq)
  \/ Validate(MainReq)
  \/ ReadConfig(MainReq)
  \/ CallGetPrivateKey(MainReq)
  \/ ReturnGetPrivateKey(MainReq)
  \/ MintJWT(MainReq)
  \/ CallLookup(MainReq)
  \/ ReturnLookup(MainReq)
  \/ CallIssue(MainReq)
  \/ ReturnIssue(MainReq)
  \/ Timeout(MainReq)
  \/ Discard(MainReq)

Spec == Init /\ [][Next]_vars

\* ------------------------------------------------- a customised catalog

\* The catalogs a build may start with: the shipped one, and one whose
\* block-list was customised in scopes.go to hold a scope of the allow-list
\* and a scope outside it.
Catalogs ==
  { ShippedCatalog,
    [ AllowedScopes |-> AllowedScopes, BlacklistedScopes |-> { "contents", "bogus" } ] }

InitCatalogs ==
  /\ env \in Envs
  /\ catalog \in Catalogs
  /\ req = [ r \in Reqs |-> NoRequest ]
  /\ pc = [ r \in Reqs |-> "idle" ]
  /\ ctx = [ r \in Reqs |-> "none" ]
  /\ loc = [ r \in Reqs |-> InitLoc ]
  /\ calls = [ r \in Reqs |-> << >> ]
  /\ resp = [ r \in Reqs |-> << >> ]
  /\ tt = NoTest
  /\ logger = [ r \in Reqs |-> NoLogger ]

\* The handler under either catalog.
CatalogSpec == InitCatalogs /\ [][Next]_vars

\* ------------------------------------------------- concurrent requests

\* The requests of the concurrent specification: one that passes every check
\* and one that repeats a key.
ConcRequests ==
  { [ method |-> "POST", auth |-> << "Bearer", "tok_or" >>, query |-> q,
      host |-> TagHost ] :
      q \in { << << "contents", "read" >> >>,
              << << "contents", "read" >>, << "contents", "write" >> >> } }

\* The collaborators' answers of the concurrent specification: two keys, one
\* minting time, two installations or none, two tokens or a refusal.
ConcSecretAnswers ==
  { a \in SecretAnswers : GetPrivateKey(a).err = NoErr /\ GetPrivateKey(a).key # "rsa_small" }

ConcTime == CHOOSE t \in Times : \A u \in Times : t <= u

ConcLookupAnswers ==
  { a \in LookupAnswers :
      \/ a.err = NoErr /\ a.id # << >>
      \/ a.status = StatusNotFound /\ a.err = << "internal", "server", "error" >> }

ConcIssueAnswers ==
  { a \in IssueAnswersTo([ Contents |-> "read" ]) :
      \/ a.err = NoErr /\ GetPermissions(a.token) = [ Contents |-> "read" ]
      \/ a.status = StatusForbidden /\ a.err = << "internal", "server", "error" >> }

\* The answer of the last call of request r.
LastAnswer(r) == calls[r][Len(calls[r])].ans

InitConc ==
  /\ env \in { e \in Envs : e.GITHUB_APP_ID # ""
                            /\ (e.GOOGLE_CLOUD_PROJECT # "" \/ e.GCP_PROJECT # "") }
  /\ catalog = ShippedCatalog
  /\ req = [ r \in Reqs |-> NoRequest ]
  /\ pc = [ r \in Reqs |-> "idle" ]
  /\ ctx = [ r \in Reqs |-> "none" ]
  /\ loc = [ r \in Reqs |-> InitLoc ]
  /\ calls = [ r \in Reqs |-> << >> ]
  /\ resp = [ r \in Reqs |-> << >> ]
  /\ tt = NoTest
  /\ logger = [ r \in Reqs |-> NoLogger ]

\* The server runs TokenHandler for every request in a goroutine of its own:
\* the steps of the requests in the slots interleave.
NextConc ==
  \E r \in Reqs :
    \/ ArriveFrom(r, ConcRequests)
    \/ CheckMethod(r)
    \/ CheckAuthHeader(r)
    \/ ExtractIdentity(r)
    \/ ParseQuery(r)
    \/ Validate(r)
    \/ ReadConfig(r)
    \/ CallGetPrivateKey(r)
    \/ ReturnGetPrivateKey(r) /\ LastAnswer(r)' \in ConcSecretAnswers
    \/ MintJWT(r) /\ loc'[r].now = ConcTime
    \/ CallLookup(r)
    \/ ReturnLookup(r) /\ LastAnswer(r)' \in ConcLookupAnswers
    \/ CallIssue(r)
    \/ ReturnIssue(r) /\ LastAnswer(r)' \in ConcIssueAnswers
    \/ Discard(r)

ConcSpec == InitConc /\ [][NextConc]_vars

\* ------------------------------------- the adapter over the whole catalog

\* Most scopes in a scope map handed to CreateInstallationToken.
MaxScopes == 2

\* The subsets of S with at most k elements.
RECURSIVE SubsetsUpTo(_, _)
SubsetsUpTo(S, k) ==
  IF k = 0 THEN { {} }
  ELSE LET smaller == SubsetsUpTo(S, k - 1)
       IN smaller \cup { T \cup { x } : T \in smaller, x \in S }

\* The scope maps that reach line 959: at least one scope, every scope and
\* level accepted by ValidateScopes.
ValidatedScopeMaps ==
  UNION { { m \in [ S -> { "read", "write" } ] : ValidateScopes(m) = { NoErr } } :
            S \in SubsetsUpTo(DOMAIN AllowedScopes, MaxScopes) \ { {} } }

\* A query string that parses to the scope map (its keys in the table's order).
QueryOf(scopes) ==
  LET keys == SelectSeq(CatalogOrder, LAMBDA s : s \in DOMAIN scopes)
  IN [ i \in 1..Len(keys) |-> << keys[i], scopes[keys[i]] >> ]

\* The handler at line 959, about to call CreateInstallationToken for a
\* request with the given scope map: the identity was extracted, the key
\* fetched, the assertion minted and the installation found.
AtIssue(scopes) ==
  LET e == CHOOSE x \in Envs : x.GITHUB_APP_ID # "" /\ x.GOOGLE_CLOUD_PROJECT # ""
      secret == CHOOSE a \in SecretAnswers :
                  a.pkcs1 = "rsa_ok" /\ GetPrivateKey(a).err = NoErr
      now == CHOOSE t \in Times : \A u \in Times : t <= u
      jwt == CreateJWT("rsa_ok", e.GITHUB_APP_ID, now).jwt
      id == CHOOSE n \in InstallIDs : \A k \in InstallIDs : n <= k
      call(op, arg, j, ans) ==
        [ op |-> op, ctx |-> "deadline", arg |-> arg, jwt |-> j,
          returned |-> TRUE, ans |-> ans ]
  IN [ env |-> e,
       req |-> [ method |-> "POST", auth |-> << "Bearer", "tok_or" >>,
                 query |-> QueryOf(scopes), host |-> TagHost ],
       loc |-> [ oidcToken |-> << "tok_or" >>, repository |-> "o/r",
                 scopes |-> scopes, appID |-> e.GITHUB_APP_ID,
                 projectID |-> e.GOOGLE_CLOUD_PROJECT, privateKey |-> "rsa_ok",
                 now |-> now, jwtToken |-> jwt, installationID |-> id,
                 token |-> << >> ],
       calls |-> << call("get_private_key", e.GOOGLE_CLOUD_PROJECT, NoJWT, secret),
                    call("find_installation", Split(Chars("o/r"), "/"), jwt,
                         [ id |-> << id >>, status |-> StatusOK, err |-> NoErr ]) >>,
       logger |->
         LogGitHubAPICall(
           LogGitHubAPICall(
             LogGitHubAPICall(
               LogRequest(SetRepository(NewRequestLogger(TagHost), "o/r"), scopes),
               "get_private_key", TRUE, NoErr),
             "create_jwt", TRUE, NoErr),
           "get_installation_id", TRUE, NoErr) ]

InitIssue ==
  /\ catalog = ShippedCatalog
  /\ tt = NoTest
  /\ \E m \in ValidatedScopeMaps :
       LET s == AtIssue(m)
       IN /\ env = s.env
          /\ logger = [ r \in Reqs |-> IF r = MainReq THEN s.logger ELSE NoLogger ]
          /\ req = [ r \in Reqs |-> IF r = MainReq THEN s.req ELSE NoRequest ]
          /\ pc = [ r \in Reqs |-> IF r = MainReq THEN "issue" ELSE "idle" ]
          /\ ctx = [ r \in Reqs |-> IF r = MainReq THEN "active" ELSE "none" ]
          /\ loc = [ r \in Reqs |-> IF r = MainReq THEN s.loc ELSE InitLoc ]
          /\ calls = [ r \in Reqs |-> IF r = MainReq THEN s.calls ELSE << >> ]
          /\ resp = [ r \in Reqs |-> << >> ]

NextIssue ==
  \/ CallIssue(MainReq)
  \/ ReturnIssue(MainReq)

\* CreateInstallationToken applied to every validated scope map.
IssueSpec == InitIssue /\ [][NextIssue]_vars

\* ------------------------------------ the lookup over every repository name

\* The repository names GetInstallationID may be handed: validation.go, which
\* produces them, is not under src/, so the code does not bound them.
Repositories == { "o/r", "or", "a/b/c", "/r", "o/", "" }

\* The handler at line 944, about to call GetInstallationID with the given
\* repository name, the key fetched from the given answer and the assertion
\* minted at the given time.
AtLookup(repository, e, secret, now) ==
  LET key == GetPrivateKey(secret).key
      jwt == CreateJWT(key, e.GITHUB_APP_ID, now).jwt
      projectID == IF e.GOOGLE_CLOUD_PROJECT # "" THEN e.GOOGLE_CLOUD_PROJECT
                   ELSE e.GCP_PROJECT
  IN [ req |-> [ method |-> "POST", auth |-> << "Bearer", "tok_or" >>,
                 query |-> << << "contents", "read" >> >>, host |-> TagHost ],
       loc |-> [ oidcToken |-> << "tok_or" >>, repository |-> repository,
                 scopes |-> [ s \in { "contents" } |-> "read" ],
                 appID |-> e.GITHUB_APP_ID, projectID |-> projectID,
                 privateKey |-> key, now |-> now, jwtToken |-> jwt,
                 installationID |-> 0, token |-> << >> ],
       calls |-> << [ op |-> "get_private_key", ctx |-> "deadline", arg |-> projectID,
                      jwt |-> NoJWT, returned |-> TRUE, ans |-> secret ] >>,
       logger |->
         LogGitHubAPICall(
           LogGitHubAPICall(
             LogRequest(SetRepository(NewRequestLogger(TagHost), repository),
                        [ s \in { "contents" } |-> "read" ]),
             "get_private_key", TRUE, NoErr),
           "create_jwt", TRUE, NoErr) ]

InitLookup ==
  /\ catalog = ShippedCatalog
  /\ tt = NoTest
  /\ env \in { e \in Envs : e.GITHUB_APP_ID # ""
                            /\ (e.GOOGLE_CLOUD_PROJECT # "" \/ e.GCP_PROJECT # "") }
  /\ \E repository \in Repositories, now \in Times :
       \E secret \in { a \in SecretAnswers :
                         /\ GetPrivateKey(a).err = NoErr
                         /\ CreateJWT(GetPrivateKey(a).key, env.GITHUB_APP_ID, now).err
                              = NoErr } :
         LET s == AtLookup(repository, env, secret, now)
         IN /\ req = [ r \in Reqs |-> IF r = MainReq THEN s.req ELSE NoRequest ]
            /\ logger = [ r \in Reqs |-> IF r = MainReq THEN s.logger ELSE NoLogger ]
            /\ pc = [ r \in Reqs |-> IF r = MainReq THEN "lookup" ELSE "idle" ]
            /\ ctx = [ r \in Reqs |-> IF r = MainReq THEN "active" ELSE "none" ]
            /\ loc = [ r \in Reqs |-> IF r = MainReq THEN s.loc ELSE InitLoc ]
            /\ calls = [ r \in Reqs |-> IF r = MainReq THEN s.calls ELSE << >> ]
            /\ resp = [ r \in Reqs |-> << >> ]

NextLookup ==
  \/ CallLookup(MainReq)
  \/ ReturnLookup(MainReq)
  \/ Timeout(MainReq)

\* GetInstallationID applied to every repository name.
LookupSpec == InitLookup /\ [][NextLookup]_vars

\* -------------------------------------- VerifyRequestedScopes on its own

\* The scope IDs the table entries request: two the function copies from the
\* grant, one it does not know.
TestScopes == { "contents", "administration", "variables" }

\* The requested maps of the table, the empty map among them.
RequestedMaps ==
  UNION { [ S -> { "read", "write" } ] : S \in SubsetsUpTo(TestScopes, MaxScopes) }

\* No handler is running while the unit test runs.
InitTest ==
  /\ env \in { e \in Envs : e.GITHUB_APP_ID # "" /\ e.GOOGLE_CLOUD_PROJECT # "" }
  /\ catalog = ShippedCatalog
  /\ req = [ r \in Reqs |-> NoRequest ]
  /\ pc = [ r \in Reqs |-> "idle" ]
  /\ ctx = [ r \in Reqs |-> "none" ]
  /\ loc = [ r \in Reqs |-> InitLoc ]
  /\ calls = [ r \in Reqs |-> << >> ]
  /\ resp = [ r \in Reqs |-> << >> ]
  /\ logger = [ r \in Reqs |-> NoLogger ]
  /\ \E requested \in RequestedMaps, granted \in GrantedPermissions :
       tt = [ requested |-> requested, granted |-> granted,
              ran |-> FALSE, err |-> NoErr ]

\* err := VerifyRequestedScopes(tt.requested, tt.granted)
RunVerify ==
  /\ ~tt.ran
  /\ \E err \in VerifyRequestedScopes(tt.requested, tt.granted) :
       tt' = [ tt EXCEPT !.ran = TRUE, !.err = err ]
  /\ UNCHANGED << env, catalog, req, pc, ctx, loc, calls, resp, logger >>

\* VerifyRequestedScopes applied to every requested map and every grant.
TestSpec == InitTest /\ [][RunVerify]_vars

\* ------------------------------------------- requests with and without a tag

\* The requests of the logging specification: through the tag URL and
\* through the service URL, with at most one query parameter, which may
\* repeat the word sent in the Authorization header as its name or its value.
LogParams ==
  Params \cup { << "contents", "tok_or" >>, << "tok_or", "read" >> }

LogRequests ==
  [ method : { "POST", "GET" },
    auth : { << >>, << "Basic", "tok_or" >>, << "Bearer", "tok_or" >>,
             << "Bearer", "tok_bad" >> },
    query : UNION { [1..n -> LogParams] : n \in 0..1 },
    host : { TagHost, ServiceHost } ]

NextLog ==
  \/ ArriveFrom(MainReq, LogRequests)
  \/ CheckMethod(MainReq)
  \/ CheckAuthHeader(MainReq)
  \/ ExtractIdentity(MainReq)
  \/ ParseQuery(MainReq)
  \/ Validate(MainReq)
  \/ ReadConfig(MainReq)
  \/ CallGetPrivateKey(MainReq)
  \/ ReturnGetPrivateKey(MainReq)
  \/ MintJWT(MainReq)
  \/ CallLookup(MainReq)
  \/ ReturnLookup(MainReq)
  \/ CallIssue(MainReq)
  \/ ReturnIssue(MainReq)
  \/ Timeout(MainReq)
  \/ Discard(MainReq)

\* The handler with its logger, for requests through either URL.
LogSpec == Init /\ [][NextLog]_vars

\* --------------------------------------------------- the handler keeps going

\* One step of TokenHandler for the request in slot r, whichever is next.
TokenHandler(r) ==
  \/ CheckMethod(r)
  \/ CheckAuthHeader(r)
  \/ ExtractIdentity(r)
  \/ ParseQuery(r)
  \/ Validate(r)
  \/ ReadConfig(r)
  \/ CallGetPrivateKey(r)
  \/ ReturnGetPrivateKey(r)
  \/ MintJWT(r)
  \/ CallLookup(r)
  \/ ReturnLookup(r)
  \/ CallIssue(r)
  \/ ReturnIssue(r)

\* The goroutine of a request is scheduled as long as it can take a step,
\* and a collaborator call returns, with its answer or with the error of its
\* cancelled context.  Nothing obliges a request to arrive, the deadline to
\* fire or a served request to be dropped.
LiveSpec == Init /\ [][NextLog]_vars /\ WF_vars(TokenHandler(MainReq))

\* ================================================================== claims

Done(r) == pc[r] = "done" /\ Len(resp[r]) >= 1

Status(r) == resp[r][Len(resp[r])].status

Body(r) == resp[r][Len(resp[r])].body

\* The (scope, level) pairs the request asks for.
RequestedPairs(r) == Range(req[r].query)

\* The requested map as the query string gives it: each key with its first value.
RequestedMap(r) ==
  [ k \in QueryKeys(req[r].query) |-> QueryValues(req[r].query, k)[1] ]

\* The (scope, level) entries of a permission set returned by the upstream.
GrantPairs(perms) ==
  IF perms = NilPermissions THEN {}
  ELSE { << GrantedScopeID(f), perms[f] >> : f \in DOMAIN perms }

\* The indices of the calls of request r to collaborator op.
CallsTo(r, op) == { i \in 1..Len(calls[r]) : calls[r][i].op = op }

\* The upstream has answered the issuance call of request r with a token.
TokenIssued(r) ==
  \E i \in CallsTo(r, "create_token") :
    calls[r][i].returned /\ calls[r][i].ans.err = NoErr

\* The permission set of that token.
IssuedPermissions(r) ==
  LET i == CHOOSE j \in CallsTo(r, "create_token") : calls[r][j].returned
  IN GetPermissions(calls[r][i].ans.token)

GrantCovers(r) == RequestedPairs(r) \subseteq GrantPairs(IssuedPermissions(r))

\* The requested scopes the grant lacks or holds at another level.
Shortfall(r) ==
  { p[1] : p \in { x \in RequestedPairs(r) : x \notin GrantPairs(IssuedPermissions(r)) } }

\* C1: a 200 response is written only when the upstream answered this
\* request's issuance call with a token whose grant holds every requested
\* (scope, level) pair, and it carries that token.
C1_TokenOnlyOnFullGrant ==
  \A r \in Reqs :
    (Done(r) /\ Status(r) = StatusOK) =>
      /\ TokenIssued(r)
      /\ IssuedPermissions(r) # NilPermissions
      /\ GrantCovers(r)
      /\ Body(r).token =
           calls[r][CHOOSE j \in CallsTo(r, "create_token") : TRUE].ans.token[1].Token

\* A token is returned for two requested scopes out of a larger grant.
C1_Witness ==
  \E r \in Reqs :
    /\ Done(r) /\ Status(r) = StatusOK
    /\ Cardinality(RequestedPairs(r)) = 2
    /\ GrantPairs(IssuedPermissions(r)) # RequestedPairs(r)

\* The text of a partial-grant error: its prefix, the missing list, ")".
IsFewerScopesMsg(msg) ==
  /\ Len(msg) > Len(FewerScopesPrefix) + 1
  /\ SubSeq(msg, 1, Len(FewerScopesPrefix)) = FewerScopesPrefix

MissingList(msg) == SubSeq(msg, Len(FewerScopesPrefix) + 1, Len(msg) - 1)

\* The request ends with the partial-grant error listing exactly the shortfall.
PartialGrantReported(r) ==
  /\ IsFewerScopesMsg(Body(r).error)
  /\ Range(MissingList(Body(r).error)) = Shortfall(r)
  /\ Len(MissingList(Body(r).error)) = Cardinality(Shortfall(r))

\* C2 as stated: whenever the upstream issues a token whose grant omits or
\* mismatches a requested pair, the partial-grant error lists exactly the
\* requested scopes without an identical entry in the grant.
C2_Original ==
  \A r \in Reqs :
    (Done(r) /\ TokenIssued(r) /\ ~GrantCovers(r)) => PartialGrantReported(r)

\* C2 as amended: the same, for a token that carries a permission set.
C2_MissingListIsShortfall ==
  \A r \in Reqs :
    (Done(r) /\ TokenIssued(r) /\ IssuedPermissions(r) # NilPermissions
       /\ ~GrantCovers(r)) => PartialGrantReported(r)

\* Two scopes are requested, one is missing and one is granted at another level.
C2_Witness ==
  \E r \in Reqs :
    /\ Done(r) /\ TokenIssued(r) /\ IssuedPermissions(r) # NilPermissions
    /\ Cardinality(Shortfall(r)) = 2
    /\ Cardinality(DOMAIN IssuedPermissions(r)) = 1
    /\ PartialGrantReported(r)

\* C3: when the grant is a superset of the request, exactly one response is
\* written, it is a 200 and its scopes field is the requested map.
C3_SupersetGrantReturnsRequest ==
  \A r \in Reqs :
    (Done(r) /\ TokenIssued(r) /\ IssuedPermissions(r) # NilPermissions
       /\ GrantCovers(r)) =>
      /\ Len(resp[r]) = 1
      /\ Status(r) = StatusOK
      /\ Body(r).scopes = RequestedMap(r)

\* One scope is requested and the grant holds two more entries.
C3_Witness ==
  \E r \in Reqs :
    /\ Done(r) /\ TokenIssued(r) /\ IssuedPermissions(r) # NilPermissions
    /\ GrantCovers(r)
    /\ Cardinality(RequestedPairs(r)) = 1
    /\ Cardinality(DOMAIN IssuedPermissions(r)) = 3
    /\ Status(r) = StatusOK

\* C4 as stated: every token whose grant does not cover the request (a pair
\* missing, a pair at another level, no permission set at all) is answered 403.
C4_ShortfallIsForbidden ==
  \A r \in Reqs :
    (Done(r) /\ TokenIssued(r) /\ ~GrantCovers(r)) => Status(r) = StatusForbidden

\* The identity of the request: the header is "<scheme> <assertion>" with
\* scheme bearer and the assertion yields a repository.
IdentityOK(q) ==
  /\ Len(q.auth) >= 2
  /\ ToLower(q.auth[1]) = "bearer"
  /\ ExtractRepositoryFromOIDC(Tail(q.auth)).err = NoErr

\* The keys the query string repeats.
RepeatedKeys(q) == { k \in QueryKeys(q) : Len(QueryValues(q, k)) > 1 }

\* C5 as stated: a POST request with a valid bearer identity whose query
\* repeats a key is answered 400 with the duplicate-scope error naming a
\* repeated key, whatever else the query holds.
C5_DuplicateAlwaysReported ==
  \A r \in Reqs :
    (Done(r) /\ req[r].method = "POST" /\ IdentityOK(req[r])
       /\ RepeatedKeys(req[r].query) # {}) =>
      /\ Status(r) = StatusBadRequest
      /\ \E k \in RepeatedKeys(req[r].query) : Body(r).error = DuplicateScopeMsg(k)

\* The scope set of the query is rejected by the parser or by the policy.
InvalidScopeSet(q) ==
  \E res \in ParseScopes(q) :
    \/ res.err # NoErr
    \/ DOMAIN res.scopes = {}
    \/ ValidateScopes(res.scopes) # { NoErr }

PassesChecks(q) == q.method = "POST" /\ IdentityOK(q) /\ ~InvalidScopeSet(q.query)

\* Call i of request r has returned a failure to the handler.
CallFailed(r, i) ==
  LET c == calls[r][i]
  IN /\ c.returned
     /\ CASE c.op = "get_private_key" -> GetPrivateKey(c.ans).err # NoErr
          [] c.op = "find_installation" ->
               GetInstallationID(loc[r].repository, c.ans).err # NoErr
          [] OTHER -> \A res \in CreateInstallationToken(loc[r].scopes, c.ans) :
                        res.err # NoErr

UpstreamOps == { "find_installation", "create_token" }

\* C7: a request that fails a check triggers no secret fetch, no minting and
\* no upstream call; after a failed secret fetch or a failed signing there is
\* no upstream call; after a failed lookup there is no issuance call.
C7_FailureEndsPipeline ==
  \A r \in Reqs :
    /\ (pc[r] # "idle" /\ ~PassesChecks(req[r])) =>
         (calls[r] = << >> /\ loc[r].jwtToken = NoJWT)
    /\ \A i \in CallsTo(r, "get_private_key") :
         CallFailed(r, i) => (Len(calls[r]) = 1 /\ loc[r].jwtToken = NoJWT)
    /\ loc[r].jwtToken = NoJWT => \A i \in 1..Len(calls[r]) : calls[r][i].op \notin UpstreamOps
    /\ \A i \in CallsTo(r, "find_installation") :
         CallFailed(r, i) => CallsTo(r, "create_token") = {}

\* The secret fetch succeeded, signing failed, and the request ended with a
\* 500 and no upstream call.
C7_Witness ==
  \E r \in Reqs :
    /\ Done(r) /\ Status(r) = StatusInternalServerError
    /\ Len(calls[r]) = 1 /\ ~CallFailed(r, 1)
    /\ loc[r].privateKey = "rsa_small"

\* C8 as stated: a lookup failure other than not-found and an issuance
\* failure other than forbidden or unprocessable are answered 503, whatever
\* the text of the underlying error.
C8_StatusIgnoresErrorText ==
  \A r \in Reqs :
    Done(r) =>
      /\ \A i \in CallsTo(r, "find_installation") :
           (calls[r][i].returned /\ calls[r][i].ans.err # NoErr
              /\ calls[r][i].ans.status # StatusNotFound) =>
             Status(r) = StatusServiceUnavailable
      /\ \A i \in CallsTo(r, "create_token") :
           (calls[r][i].returned /\ calls[r][i].ans.err # NoErr
              /\ calls[r][i].ans.status \notin { StatusForbidden, StatusUnprocessableEntity }) =>
             Status(r) = StatusServiceUnavailable

\* Call i of request r was cancelled by the deadline.
CancelledCall(r, i) ==
  LET c == calls[r][i]
  IN /\ c.returned
     /\ IF c.op = "get_private_key" THEN c.ans.accessErr = DeadlineErr
        ELSE c.ans.err = DeadlineErr

\* C9 as stated: every network call is given the deadline context, and a
\* request whose call was cancelled by the deadline is answered 503.
C9_Original ==
  \A r \in Reqs :
    /\ \A i \in 1..Len(calls[r]) : calls[r][i].ctx = "deadline"
    /\ Done(r) => \A i \in 1..Len(calls[r]) :
                    CancelledCall(r, i) => Status(r) = StatusServiceUnavailable

\* C9 as amended: every network call is given the deadline context; a
\* cancelled lookup or issuance is answered 503, a cancelled secret fetch 500.
C9_DeadlinePropagated ==
  \A r \in Reqs :
    /\ \A i \in 1..Len(calls[r]) : calls[r][i].ctx = "deadline"
    /\ ctx[r] = "none" => calls[r] = << >>
    /\ Done(r) => \A i \in 1..Len(calls[r]) :
                    CancelledCall(r, i) =>
                      Status(r) = IF calls[r][i].op = "get_private_key"
                                  THEN StatusInternalServerError
                                  ELSE StatusServiceUnavailable

\* The deadline cancelled the issuance call, the third call of the request.
C9_Witness ==
  \E r \in Reqs :
    /\ Done(r) /\ Len(calls[r]) = 3 /\ CancelledCall(r, 3)
    /\ Status(r) = StatusServiceUnavailable

\* C10: each collaborator is called at most once per request, and no call
\* follows a failed one.
C10_NoRetry ==
  \A r \in Reqs :
    /\ \A op \in { "get_private_key", "find_installation", "create_token" } :
         Cardinality(CallsTo(r, op)) <= 1
    /\ \A i \in 1..Len(calls[r]) : CallFailed(r, i) => i = Len(calls[r])
    /\ \A i \in 1..Len(calls[r]) : ~calls[r][i].returned => i = Len(calls[r])

\* A request ends after a failed lookup that followed a successful secret fetch.
C10_Witness ==
  \E r \in Reqs :
    /\ Done(r) /\ Len(calls[r]) = 2 /\ CallFailed(r, 2)
    /\ calls[r][2].ans.status = StatusInternalServerError

\* C11: the permissions sent upstream, read back through the grant-side
\* mapping, are exactly the requested map: as many fields are set as scopes
\* were requested, each requested scope at its requested level, and an
\* upstream answering with exactly the permissions it was sent gets a 200.
C11_ExactPrivilegesSent ==
  \A r \in Reqs :
    \A i \in CallsTo(r, "create_token") :
      LET sent == calls[r][i].arg.permissions
      IN /\ GrantedMap(sent) = loc[r].scopes
         /\ loc[r].scopes = RequestedMap(r)
         /\ Cardinality(DOMAIN sent) = Cardinality(DOMAIN RequestedMap(r))
         /\ \A s \in DOMAIN RequestedMap(r) :
              sent[PermissionField(s)] = RequestedMap(r)[s]
         /\ (calls[r][i].returned /\ calls[r][i].ans.err = NoErr
               /\ GetPermissions(calls[r][i].ans.token) = sent) =>
              (Done(r) /\ Status(r) = StatusOK)

\* projects and secrets were requested, sent as two fields, granted as sent.
C11_Witness ==
  \E r \in Reqs :
    /\ Done(r) /\ Status(r) = StatusOK
    /\ RequestedMap(r) = [ s \in { "projects", "secrets" } |->
                             IF s = "projects" THEN "write" ELSE "read" ]
    /\ \E i \in CallsTo(r, "create_token") :
         /\ DOMAIN calls[r][i].arg.permissions = { "RepositoryProjects", "Secrets" }
         /\ GetPermissions(calls[r][i].ans.token) = calls[r][i].arg.permissions

\* The query asks, once each, for scopes of the README table at levels the
\* table lists for them.
ListedRequest(q) ==
  /\ q # << >>
  /\ RepeatedKeys(q) = {}
  /\ \A p \in Range(q) : p[1] \in DOMAIN AllowedScopes /\ p[2] \in AllowedScopes[p[1]]

\* The upstream granted exactly what each issuance call of request r asked for.
GrantsAsAsked(r) ==
  \A i \in CallsTo(r, "create_token") :
    /\ calls[r][i].returned /\ calls[r][i].ans.err = NoErr
    /\ GetPermissions(calls[r][i].ans.token) = calls[r][i].arg.permissions

\* C12 as stated: a request for scopes of the README table at listed levels,
\* with a valid identity, an installation found and an upstream that grants
\* exactly what it is asked, ends in 200.
C12_ListedScopesIssuable ==
  \A r \in Reqs :
    (Done(r) /\ req[r].method = "POST" /\ IdentityOK(req[r])
       /\ ListedRequest(req[r].query) /\ loc[r].installationID \in InstallIDs
       /\ GrantsAsAsked(r)) => Status(r) = StatusOK

\* The three checks of the policy on one requested pair.
PairPasses(scope, level) ==
  /\ scope \notin catalog.BlacklistedScopes
  /\ scope \in DOMAIN catalog.AllowedScopes
  /\ level \in catalog.AllowedScopes[scope]

\* The scope set of request r was parsed and has been through the validator.
Validated(r) == DOMAIN loc[r].scopes # {} /\ pc[r] \notin { "idle", "validate" }

FailingPairs(r) ==
  { s \in DOMAIN loc[r].scopes : ~PairPasses(s, loc[r].scopes[s]) }

\* C13: once a parsed scope set has been through the validator, the request
\* went on exactly when every requested pair passes the three checks; with
\* one failing pair it is answered 400 and no collaborator is ever called.
C13_AcceptedIffAllPairsPass ==
  \A r \in Reqs :
    Validated(r) =>
      IF FailingPairs(r) = {}
      THEN ~(Done(r) /\ Status(r) = StatusBadRequest)
      ELSE Done(r) /\ Status(r) = StatusBadRequest /\ calls[r] = << >>

\* Two scopes were requested at levels the allow-list permits, one of them
\* is block-listed, and the request ended with a 400.
C13_Witness ==
  \E r \in Reqs :
    /\ Validated(r) /\ Done(r) /\ Status(r) = StatusBadRequest
    /\ DOMAIN loc[r].scopes = { "administration", "contents" }
    /\ FailingPairs(r) = { "contents" }
    /\ loc[r].scopes["contents"] \in AllowedScopes["contents"]

\* The class of a validation error text and the scope it names.
Classify(msg) ==
  IF Len(msg) = 5 /\ msg[1] = "scope" /\ SubSeq(msg, 3, 5) = << "is", "not", "allowed" >>
  THEN [ class |-> "ScopeBlocked", scope |-> msg[2] ]
  ELSE IF Len(msg) = 6 /\ msg[1] = "scope"
          /\ SubSeq(msg, 3, 6) = << "is", "not", "in", "allowlist" >>
  THEN [ class |-> "ScopeNotAllowed", scope |-> msg[2] ]
  ELSE IF Len(msg) = 8 /\ msg[1] = "permission"
          /\ SubSeq(msg, 3, 7) = << "is", "not", "allowed", "for", "scope" >>
  THEN [ class |-> "LevelNotPermitted", scope |-> msg[8] ]
  ELSE [ class |-> "", scope |-> "" ]

\* The first rule a requested pair violates, in the order block-list,
\* allow-list, level.
FirstViolatedRule(scope, level) ==
  IF scope \in catalog.BlacklistedScopes THEN "ScopeBlocked"
  ELSE IF scope \notin DOMAIN catalog.AllowedScopes THEN "ScopeNotAllowed"
  ELSE IF level \notin catalog.AllowedScopes[scope] THEN "LevelNotPermitted"
  ELSE ""

\* C14: a request rejected by the policy is answered with the error of one
\* of its failing scopes, classified by the first rule that scope violates
\* in the order block-list, allow-list, level, and naming that scope.
C14_FirstViolatedRuleClassifies ==
  \A r \in Reqs :
    (Validated(r) /\ FailingPairs(r) # {}) =>
      /\ Done(r) /\ Status(r) = StatusBadRequest
      /\ \E s \in FailingPairs(r) :
           Classify(Body(r).error) =
             [ class |-> FirstViolatedRule(s, loc[r].scopes[s]), scope |-> s ]

\* A scope that is on the allow-list at the requested level and on the
\* block-list was requested and is reported as blocked.
C14_Witness ==
  \E r \in Reqs :
    /\ Validated(r) /\ Done(r)
    /\ DOMAIN loc[r].scopes = { "contents" }
    /\ loc[r].scopes["contents"] \in catalog.AllowedScopes["contents"]
    /\ "contents" \in catalog.BlacklistedScopes
    /\ Classify(Body(r).error) = [ class |-> "ScopeBlocked", scope |-> "contents" ]

\* C15: every minted assertion expires exactly 600 seconds after it was
\* issued, was issued at the time read when minting, names the configured
\* app ID as issuer, and is signed with RS256 by the fetched key.
C15_AssertionLifetime ==
  \A r \in Reqs :
    loc[r].jwtToken # NoJWT =>
      /\ loc[r].jwtToken.exp - loc[r].jwtToken.iat = 600
      /\ loc[r].jwtToken.iat = loc[r].now
      /\ loc[r].jwtToken.iss = env.GITHUB_APP_ID
      /\ loc[r].jwtToken.alg = "RS256"
      /\ loc[r].jwtToken.key = loc[r].privateKey

\* An assertion minted at the later time, for the second app ID, with the
\* key that was stored as PKCS8.
C15_Witness ==
  \E r \in Reqs :
    /\ loc[r].jwtToken # NoJWT
    /\ loc[r].jwtToken.iat = 5000 /\ loc[r].jwtToken.exp = 5600
    /\ loc[r].jwtToken.iss = "app2"
    /\ loc[r].jwtToken.key = "rsa_pkcs8"

\* The upstream calls of request r that presented an assertion.
AuthenticatedCalls(r) ==
  { i \in 1..Len(calls[r]) : calls[r][i].op \in UpstreamOps /\ calls[r][i].jwt # NoJWT }

\* C16 as stated: a minted assertion authenticates a single upstream call,
\* and only of the request that minted it.
C16_Original ==
  \A r \in Reqs :
    /\ Cardinality(AuthenticatedCalls(r)) <= 1
    /\ \A i \in AuthenticatedCalls(r) : calls[r][i].jwt = loc[r].jwtToken

\* C16 as amended: a minted assertion is presented only by the request that
\* minted it, to its installation lookup and then to its credential
\* issuance, once each, never to the secret store, and it is dropped with
\* the request's state once the response has been sent.
C16_AssertionStaysWithItsRequest ==
  \A r \in Reqs :
    /\ \A i \in 1..Len(calls[r]) :
         IF calls[r][i].op \in UpstreamOps
         THEN calls[r][i].jwt # NoJWT /\ calls[r][i].jwt = loc[r].jwtToken
         ELSE calls[r][i].jwt = NoJWT
    /\ \A op \in UpstreamOps : Cardinality(CallsTo(r, op)) <= 1
    /\ \A i \in CallsTo(r, "create_token") :
         \E j \in CallsTo(r, "find_installation") : j < i /\ ~CallFailed(r, j)
    /\ (loc[r].jwtToken # NoJWT /\ pc[r] # "lookup") =>
         CallsTo(r, "find_installation") # {}
    /\ pc[r] = "idle" => (loc[r].jwtToken = NoJWT /\ calls[r] = << >>)

\* Two requests in flight hold different assertions and each has presented
\* its own to its lookup and to its issuance call.
C16_Witness ==
  \E r, s \in Reqs :
    /\ loc[r].jwtToken # NoJWT /\ loc[s].jwtToken # NoJWT
    /\ loc[r].jwtToken # loc[s].jwtToken
    /\ Cardinality(AuthenticatedCalls(r)) = 2 /\ Cardinality(AuthenticatedCalls(s)) = 2
    /\ \A i \in AuthenticatedCalls(r) : calls[r][i].jwt = loc[r].jwtToken
    /\ \A i \in AuthenticatedCalls(s) : calls[s][i].jwt = loc[s].jwtToken

\* What a request does when it is the only one served: the collaborators it
\* calls, in order, and the responses it may end with (several when the
\* text depends on the order a map is visited in), given the environment,
\* the answers its calls get, in order, and the time read when minting.
SoloRun(q, e, answers, now) ==
  LET end(ops, resps) == [ ops |-> ops, resps |-> resps ]
      fail(ops, st, msg) == end(ops, { ErrorResponse(st, msg) })
      parts == SplitN2(q.auth)
      ident == ExtractRepositoryFromOIDC(parts[2])
      parsed == ParseScopes(q.query)
      scopes == (CHOOSE p \in parsed : TRUE).scopes
      appID == e.GITHUB_APP_ID
      projectID == IF e.GOOGLE_CLOUD_PROJECT # "" THEN e.GOOGLE_CLOUD_PROJECT
                   ELSE e.GCP_PROJECT
      key == GetPrivateKey(answers[1])
      minted == CreateJWT(key.key, appID, now)
      found == GetInstallationID(ident.repository, answers[2])
      ops1 == << "get_private_key" >>
      ops2 == << "get_private_key", "find_installation" >>
      ops3 == << "get_private_key", "find_installation", "create_token" >>
  IN IF q.method # "POST"
     THEN fail(<< >>, StatusMethodNotAllowed, << "method", "not", "allowed" >>)
     ELSE IF q.auth = << >>
     THEN fail(<< >>, StatusUnauthorized, << "missing", "Authorization", "header" >>)
     ELSE IF Len(parts) # 2 \/ ToLower(parts[1][1]) # "bearer"
     THEN fail(<< >>, StatusUnauthorized,
               << "invalid", "Authorization", "header", "format" >>)
     ELSE IF ident.err # NoErr
     THEN fail(<< >>, StatusUnauthorized, << "invalid", "OIDC", "token:" >> \o ident.err)
     ELSE IF \E p \in parsed : p.err # NoErr
     THEN end(<< >>, { ErrorResponse(StatusBadRequest, p.err) :
                         p \in { x \in parsed : x.err # NoErr } })
     ELSE IF DOMAIN scopes = {}
     THEN fail(<< >>, StatusBadRequest,
               << "at", "least", "one", "scope", "is", "required" >>)
     ELSE IF ValidateScopes(scopes) # { NoErr }
     THEN end(<< >>, { ErrorResponse(StatusBadRequest, v) : v \in ValidateScopes(scopes) })
     ELSE IF appID = ""
     THEN fail(<< >>, StatusInternalServerError,
               << "GITHUB_APP_ID", "not", "configured" >>)
     ELSE IF projectID = ""
     THEN fail(<< >>, StatusInternalServerError,
               << "GCP", "project", "ID", "not", "configured" >>)
     ELSE IF Len(answers) < 1 THEN end(ops1, {})
     ELSE IF key.err # NoErr THEN fail(ops1, StatusInternalServerError, key.err)
     ELSE IF minted.err # NoErr
     THEN fail(ops1, StatusInternalServerError,
               << "failed", "to", "create", "JWT:" >> \o minted.err)
     ELSE IF Len(answers) < 2 THEN end(ops2, {})
     ELSE IF found.err # NoErr THEN end(ops2, { LookupErrorResponse(found.err) })
     ELSE IF UnknownScopes(scopes) # {}
     THEN end(ops2, { IssueErrorResponse(UnknownScopeMsg(u)) : u \in UnknownScopes(scopes) })
     ELSE IF Len(answers) < 3 THEN end(ops3, {})
     ELSE end(ops3, { IF res.err # NoErr THEN IssueErrorResponse(res.err)
                      ELSE TokenResponse(res.token, scopes) :
                        res \in CreateInstallationToken(scopes, answers[3]) })

\* The collaborators request r called and the answers they gave, in order.
CalledOps(r) == [ i \in 1..Len(calls[r]) |-> calls[r][i].op ]

Answers(r) == [ i \in 1..Len(calls[r]) |-> calls[r][i].ans ]

\* C17: under every interleaving, a request that has answered called the
\* collaborators, and answered, as it does alone with the same answers; the
\* key, the installation and the token it uses are those its own calls got.
C17_RequestsDoNotInterfere ==
  \A r \in Reqs :
    /\ Done(r) =>
         LET solo == SoloRun(req[r], env, Answers(r), loc[r].now)
         IN /\ CalledOps(r) = solo.ops
            /\ Len(resp[r]) = 1
            /\ resp[r][1] \in solo.resps
    /\ loc[r].privateKey # "" =>
         /\ CallsTo(r, "get_private_key") = { 1 }
         /\ calls[r][1].returned
         /\ loc[r].privateKey = GetPrivateKey(calls[r][1].ans).key
    /\ loc[r].installationID # 0 =>
         /\ CallsTo(r, "find_installation") = { 2 }
         /\ loc[r].installationID = calls[r][2].ans.id[1]
    /\ (Done(r) /\ Status(r) = StatusOK) =>
         /\ CallsTo(r, "create_token") = { 3 }
         /\ Body(r).token = calls[r][3].ans.token[1].Token

\* One request has answered 200 while another, for the same repository and
\* scopes, waits for its token with another key and another installation.
C17_Witness ==
  \E r, s \in Reqs :
    /\ Done(r) /\ Status(r) = StatusOK /\ Body(r).token = "ghs_2"
    /\ pc[s] = "issue_wait" /\ req[s] = req[r]
    /\ loc[s].privateKey # loc[r].privateKey
    /\ loc[s].installationID # loc[r].installationID

\* Call i of request r was answered by the upstream with the given status
\* and an error.
AnsweredWith(r, i, status) ==
  /\ calls[r][i].returned
  /\ calls[r][i].ans.err # NoErr
  /\ calls[r][i].ans.status = status

\* C18: a not-found answer to the lookup, a forbidden answer to the
\* issuance and an unprocessable answer to the issuance are answered 403
\* with, respectively, the app-not-installed error naming the repository,
\* the insufficient-permissions error and the suspended-installation error.
C18_RefusalsAreForbidden ==
  \A r \in Reqs :
    Done(r) =>
      /\ \A i \in CallsTo(r, "find_installation") :
           AnsweredWith(r, i, StatusNotFound) =>
             /\ Status(r) = StatusForbidden
             /\ Body(r).error = NotInstalledMsg(OIDCRepositoryClaim(req[r].auth[2]))
      /\ \A i \in CallsTo(r, "create_token") :
           /\ AnsweredWith(r, i, StatusForbidden) =>
                (Status(r) = StatusForbidden /\ Body(r).error = InsufficientMsg)
           /\ AnsweredWith(r, i, StatusUnprocessableEntity) =>
                (Status(r) = StatusForbidden /\ Body(r).error = SuspendedMsg)

\* The lookup was answered not-found with a text of its own and the request
\* ended 403 naming repository o/r.
C18_Witness ==
  \E r \in Reqs :
    /\ Done(r) /\ Len(calls[r]) = 2
    /\ AnsweredWith(r, 2, StatusNotFound)
    /\ calls[r][2].ans.err = << "internal", "server", "error" >>
    /\ Status(r) = StatusForbidden
    /\ Body(r).error[Len(Body(r).error)] = "o/r"

\* The keys of the query whose value is not exactly "read" or "write".
BadLevelKeys(q) ==
  { k \in QueryKeys(q) : QueryValues(q, k)[1] \notin { "read", "write" } }

\* C19: a POST request with a valid bearer identity, no repeated key and a
\* parameter whose value is not exactly "read" or "write" is answered 400
\* with the invalid-permission error naming such a parameter and its value,
\* and its scopes never reach the validator.
C19_InvalidLevelRejected ==
  \A r \in Reqs :
    (req[r].method = "POST" /\ IdentityOK(req[r])
       /\ RepeatedKeys(req[r].query) = {} /\ BadLevelKeys(req[r].query) # {}) =>
      /\ pc[r] \in { "method", "auth", "oidc", "parse", "done" }
      /\ loc[r].scopes = << >>
      /\ calls[r] = << >>
      /\ Done(r) =>
           /\ Status(r) = StatusBadRequest
           /\ \E k \in BadLevelKeys(req[r].query) :
                Body(r).error = InvalidPermissionMsg(QueryValues(req[r].query, k)[1], k)

\* administration=read&contents= was answered 400 naming contents and the
\* empty value.
C19_Witness ==
  \E r \in Reqs :
    /\ Done(r) /\ Status(r) = StatusBadRequest
    /\ IdentityOK(req[r])
    /\ req[r].query = << << "administration", "read" >>, << "contents", "" >> >>
    /\ Body(r).error = InvalidPermissionMsg("", "contents")

\* C20: a POST request with a valid bearer identity and no scope parameter
\* is answered 400 "at least one scope is required" without any collaborator
\* call; no issuance call and no 200 is ever made for an empty scope set.
C20_NoScopesRejected ==
  \A r \in Reqs :
    /\ (req[r].method = "POST" /\ IdentityOK(req[r]) /\ req[r].query = << >>) =>
         /\ pc[r] \in { "method", "auth", "oidc", "parse", "done" }
         /\ calls[r] = << >>
         /\ Done(r) =>
              /\ Status(r) = StatusBadRequest
              /\ Body(r).error = << "at", "least", "one", "scope", "is", "required" >>
    /\ calls[r] # << >> => DOMAIN loc[r].scopes # {}
    /\ (Done(r) /\ Status(r) = StatusOK) => DOMAIN Body(r).scopes # {}

\* A POST request with identity o/r and an empty query was answered 400.
C20_Witness ==
  \E r \in Reqs :
    /\ Done(r) /\ req[r].method = "POST" /\ IdentityOK(req[r])
    /\ req[r].query = << >>
    /\ Status(r) = StatusBadRequest
    /\ loc[r].repository = "o/r"

\* C21: a request whose method is not POST gets no further than the method
\* check: no deadline context is made, nothing is extracted from its header
\* or its query, no collaborator is called, and it is answered once, with 405
\* "method not allowed".
C21_NonPostIsRefused ==
  \A r \in Reqs :
    (pc[r] # "idle" /\ req[r].method # "POST") =>
      /\ pc[r] \in { "method", "done" }
      /\ ctx[r] = "none"
      /\ loc[r] = InitLoc
      /\ calls[r] = << >>
      /\ pc[r] = "done" =>
           resp[r] = << ErrorResponse(StatusMethodNotAllowed,
                                      << "method", "not", "allowed" >>) >>

\* A request sent with method "post", a valid bearer identity and a valid
\* scope was answered 405.
C21_Witness ==
  \E r \in Reqs :
    /\ Done(r) /\ req[r].method = "post"
    /\ IdentityOK(req[r])
    /\ req[r].query = << << "contents", "read" >> >>
    /\ Status(r) = StatusMethodNotAllowed

\* The 401 error a request without a valid identity is to get: the header is
\* absent, is not "<scheme> <assertion>" with scheme bearer, or its assertion
\* yields no repository.
IdentityError(q) ==
  IF q.auth = << >> THEN << "missing", "Authorization", "header" >>
  ELSE IF Len(q.auth) < 2 \/ ToLower(q.auth[1]) # "bearer"
  THEN << "invalid", "Authorization", "header", "format" >>
  ELSE << "invalid", "OIDC", "token:" >> \o ExtractRepositoryFromOIDC(Tail(q.auth)).err

\* C22: a POST request without a valid identity never gets past the identity
\* checks, calls no collaborator and is answered 401 with the error of its
\* case; and a 401 is written for no other request.
C22_UnauthorizedIffNoIdentity ==
  \A r \in Reqs :
    /\ (pc[r] # "idle" /\ req[r].method = "POST" /\ ~IdentityOK(req[r])) =>
         /\ pc[r] \in { "method", "auth", "oidc", "done" }
         /\ calls[r] = << >>
         /\ loc[r].repository = ""
         /\ pc[r] = "done" =>
              resp[r] = << ErrorResponse(StatusUnauthorized, IdentityError(req[r])) >>
    /\ (Done(r) /\ Status(r) = StatusUnauthorized) =>
         (req[r].method = "POST" /\ ~IdentityOK(req[r]) /\ calls[r] = << >>)

\* A POST request with a bearer assertion whose repository claim has a
\* single segment, and with a valid scope, was answered 401.
C22_Witness ==
  \E r \in Reqs :
    /\ Done(r) /\ req[r].method = "POST"
    /\ req[r].auth = << "Bearer", "tok_bad" >>
    /\ req[r].query = << << "contents", "read" >> >>
    /\ Status(r) = StatusUnauthorized
    /\ Body(r).error = << "invalid", "OIDC", "token:", "invalid", "repository", "claim" >>

\* The secret store's answer gives no usable key: the client cannot be made
\* or closed, the access fails, the payload is not PEM, or its bytes hold
\* neither a PKCS1 key nor an RSA key as PKCS8.
KeyUnavailable(ans) ==
  \/ ans.clientErr # NoErr
  \/ ans.accessErr # NoErr
  \/ ans.closeErr # NoErr
  \/ ~ans.pem
  \/ ans.pkcs1 = "" /\ ans.pkcs8 \in { "", "ec" }

\* The key of the answer is one RS256 cannot sign with.
SigningFails(ans) == ~KeyUnavailable(ans) /\ ans.pkcs1 = "rsa_small"

\* C23: when the secret fetch gives no usable key the request is answered 500
\* at once, with the fetch's error; when signing fails it is answered 500
\* with the signing error; in both cases no assertion exists and the secret
\* fetch is the request's only call.  CreateJWT gives no assertion for a nil
\* key.
C23_NoKeyNoAssertion ==
  /\ \A r \in Reqs :
       \A i \in CallsTo(r, "get_private_key") :
         LET ans == calls[r][i].ans
         IN calls[r][i].returned =>
              /\ KeyUnavailable(ans) =>
                   /\ Done(r) /\ Status(r) = StatusInternalServerError
                   /\ Len(resp[r]) = 1
                   /\ Body(r).error = GetPrivateKey(ans).err
              /\ SigningFails(ans) =>
                   /\ pc[r] \in { "jwt", "done" }
                   /\ Done(r) =>
                        /\ Status(r) = StatusInternalServerError
                        /\ SubSeq(Body(r).error, 1, 4) = << "failed", "to", "create", "JWT:" >>
              /\ (KeyUnavailable(ans) \/ SigningFails(ans)) =>
                   /\ loc[r].jwtToken = NoJWT
                   /\ Len(calls[r]) = 1
  /\ \A now \in Times :
       /\ CreateJWT("", env.GITHUB_APP_ID, now).jwt = NoJWT
       /\ CreateJWT("", env.GITHUB_APP_ID, now).err # NoErr

\* The secret held an elliptic-curve key as PKCS8: the request was answered
\* 500 "key is not an RSA private key".
C23_Witness ==
  \E r \in Reqs :
    /\ Done(r) /\ Status(r) = StatusInternalServerError
    /\ Len(calls[r]) = 1 /\ calls[r][1].returned
    /\ calls[r][1].ans.pkcs8 = "ec"
    /\ Body(r).error = << "key", "is", "not", "an", "RSA", "private", "key" >>

\* The case labels of the switch of CreateInstallationToken.
SwitchCases ==
  { "actions", "administration", "attestations", "checks", "contents",
    "dependabot_secrets", "deployments", "discussions", "environments",
    "issues", "merge_queues", "packages", "pages", "projects", "pull_requests",
    "secret_scanning", "secrets", "statuses", "workflows" }

\* The scope IDs of request r's scope map that the switch has no case for.
OutsideSwitch(r) == DOMAIN loc[r].scopes \ SwitchCases

\* CreateInstallationToken has been entered for request r (the installation
\* was found) and has got as far as its API call or its return.
IssueEntered(r) == pc[r] \in { "issue_wait", "done" } /\ loc[r].installationID # 0

\* C26: CreateInstallationToken, entered with a scope map that holds a scope
\* ID the switch has no case for, makes no issuance call and returns the
\* unknown-scope error naming one of those scope IDs, whatever else the map
\* holds; an issuance call is made only for a map of known scope IDs.
C26_UnknownScopeNeverSent ==
  \A r \in Reqs :
    /\ (IssueEntered(r) /\ OutsideSwitch(r) # {}) =>
         /\ CallsTo(r, "create_token") = {}
         /\ Done(r) /\ Len(resp[r]) = 1
         /\ Status(r) = StatusServiceUnavailable
         /\ \E s \in OutsideSwitch(r) :
              Body(r).error = GitHubAPIErrorMsg(UnknownScopeMsg(s))
    /\ CallsTo(r, "create_token") # {} => OutsideSwitch(r) = {}

\* contents and variables were requested: no issuance call was made and the
\* error names variables.
C26_Witness ==
  \E r \in Reqs :
    /\ IssueEntered(r) /\ Done(r)
    /\ DOMAIN loc[r].scopes = { "contents", "variables" }
    /\ CallsTo(r, "create_token") = {}
    /\ Body(r).error = GitHubAPIErrorMsg(UnknownScopeMsg("variables"))

\* The statuses a request may be answered with, over every order in which
\* its query parameters and its scopes can be visited, given the environment,
\* the answers of its calls and the time read when minting.
Statuses(q, e, answers, now) == { x.status : x \in SoloRun(q, e, answers, now).resps }

\* C28: the response of a request is one of those its inputs allow, it made
\* the calls its inputs determine, and all the responses its inputs allow
\* over the iteration orders have one and the same status; whether parsing
\* and validation fail does not depend on the order either.
C28_StatusIsDetermined ==
  \A r \in Reqs :
    Done(r) =>
      LET solo == SoloRun(req[r], env, Answers(r), loc[r].now)
      IN /\ resp[r][1] \in solo.resps
         /\ CalledOps(r) = solo.ops
         /\ Statuses(req[r], env, Answers(r), loc[r].now) = { Status(r) }
         /\ Cardinality({ p.err = NoErr : p \in ParseScopes(req[r].query) }) = 1
         /\ DOMAIN loc[r].scopes # {} =>
              Cardinality({ v = NoErr : v \in ValidateScopes(loc[r].scopes) }) = 1

\* A request asking for a scope outside the allow-list and for a level the
\* allow-list does not permit was answered 400 with the error of the level,
\* while the error of the other scope was possible too.
C28_Witness ==
  \E r \in Reqs :
    /\ Done(r) /\ Status(r) = StatusBadRequest
    /\ loc[r].scopes = [ s \in { "administration", "bogus" } |->
                           IF s = "bogus" THEN "read" ELSE "write" ]
    /\ Classify(Body(r).error).class = "LevelNotPermitted"
    /\ Cardinality(SoloRun(req[r], env, Answers(r), loc[r].now).resps) = 2

\* The statuses TokenHandler writes.
HandlerStatuses ==
  { StatusOK, StatusBadRequest, StatusUnauthorized, StatusForbidden,
    StatusMethodNotAllowed, StatusInternalServerError, StatusServiceUnavailable }

\* C29: nothing is written while a request is being handled and exactly one
\* response has been written when the handler has returned; its status is
\* one of 200, 400, 401, 403, 405, 500, 503; a 200 carries token, expires_at
\* and scopes (a token of the upstream, the requested scopes); any other
\* status carries an error text and no token.
C29_ExactlyOneResponse ==
  \A r \in Reqs :
    /\ pc[r] = "done" => Len(resp[r]) = 1
    /\ pc[r] # "done" => resp[r] = << >>
    /\ \A i \in 1..Len(resp[r]) :
         LET w == resp[r][i]
         IN /\ w.status \in HandlerStatuses
            /\ IF w.status = StatusOK
               THEN /\ DOMAIN w.body = { "token", "expires_at", "scopes" }
                    /\ w.body.token = loc[r].token[1].Token
                    /\ w.body.expires_at = FormatRFC3339(loc[r].token[1].ExpiresAt)
                    /\ w.body.scopes = loc[r].scopes
               ELSE /\ DOMAIN w.body = { "error" }
                    /\ w.body.error # << >>
                    /\ loc[r].token = << >>

\* The handler has returned after three calls, having written one response:
\* a 200 with token ghs_1 for administration=read.
C29_Witness ==
  \E r \in Reqs :
    /\ pc[r] = "done" /\ Len(resp[r]) = 1 /\ Len(calls[r]) = 3
    /\ resp[r][1].status = StatusOK
    /\ resp[r][1].body.token = "ghs_1"
    /\ resp[r][1].body.scopes = [ s \in { "administration" } |-> "read" ]

\* The name is made of exactly two non-empty segments separated by one "/".
TwoNonEmptySegments(name) ==
  LET cs == Chars(name)
  IN /\ Cardinality({ i \in 1..Len(cs) : cs[i] = "/" }) = 1
     /\ cs[1] # "/"
     /\ cs[Len(cs)] # "/"

\* GetInstallationID has been entered for request r (the assertion was
\* minted) and has got as far as its lookup call or its return.
LookupEntered(r) ==
  /\ pc[r] \in { "lookup_wait", "issue", "issue_wait", "done" }
  /\ loc[r].jwtToken # NoJWT

\* C27 as stated: GetInstallationID calls the lookup only for a name of
\* exactly two non-empty segments and rejects every other name with the
\* invalid-repository-format error before any call; it returns the upstream
\* id exactly when the lookup succeeds with a present id, and 0 with an error
\* otherwise.
C27_LookupOnlyForTwoSegments ==
  \A r \in Reqs :
    LookupEntered(r) =>
      /\ IF TwoNonEmptySegments(loc[r].repository)
         THEN CallsTo(r, "find_installation") # {}
         ELSE /\ CallsTo(r, "find_installation") = {}
              /\ Done(r)
              /\ Body(r).error =
                   GitHubAPIErrorMsg(InvalidRepositoryMsg(loc[r].repository))
      /\ \A i \in CallsTo(r, "find_installation") :
           calls[r][i].returned =>
             IF calls[r][i].ans.err = NoErr /\ calls[r][i].ans.id # << >>
             THEN loc[r].installationID = calls[r][i].ans.id[1]
             ELSE loc[r].installationID = 0 /\ Done(r) /\ Status(r) # StatusOK


\* The grant holds scope s at level l: the field of InstallationPermissions
\* that carries s is set, and set to l.
Holds(granted, s, l) ==
  /\ granted # NilPermissions
  /\ PermissionField(s) \in DOMAIN granted
  /\ granted[PermissionField(s)] = l

\* C25: VerifyRequestedScopes returns no error exactly when a grant is
\* present and every requested scope is held in it at exactly the requested
\* level (a granted "write" does not satisfy a requested "read", scopes
\* granted beyond the request are ignored); so an empty request passes
\* against any present grant, and an absent grant is an error even for an
\* empty request.
C25_VerifyIffExactGrant ==
  tt.ran =>
    /\ (tt.err = NoErr) <=>
         /\ tt.granted # NilPermissions
         /\ \A s \in DOMAIN tt.requested : Holds(tt.granted, s, tt.requested[s])
    /\ tt.granted = NilPermissions => tt.err = NoPermissionsMsg
    /\ (tt.requested = << >> /\ tt.granted # NilPermissions) => tt.err = NoErr

\* A requested "read" is refused against a granted "write", although the
\* grant also holds a scope nobody asked for.
C25_Witness ==
  /\ tt.ran
  /\ tt.requested = [ s \in { "contents" } |-> "read" ]
  /\ tt.granted = [ Contents |-> "write", Metadata |-> "read" ]
  /\ tt.err = FewerScopesMsg(<< "contents" >>)


\* The words a printed entry holds, each as TLC writes it: the words of the
\* texts, the names of the scope lists, every other value whole.
EntryWords(entry) ==
  LET texts == DOMAIN entry \cap { "detail", "error" }
      lists == DOMAIN entry \cap { "scopes", "scopes_granted" }
  IN { ToString(entry[f]) : f \in DOMAIN entry \ (texts \cup lists) }
     \cup UNION { { ToString(entry[f][i]) : i \in 1..Len(entry[f]) } : f \in texts }
     \cup UNION { { ToString(x) : x \in entry[f] } : f \in lists }

\* The secrets of request r: what the caller sent in the Authorization header
\* after the scheme, the key material the secret store returned, the minted
\* JWT, the installation token the upstream returned.
SecretWords(r) ==
  { ToString(req[r].auth[i]) : i \in 2..Len(req[r].auth) }
  \cup { ToString(k) :
           k \in UNION { { calls[r][i].ans.pkcs1, calls[r][i].ans.pkcs8 } :
                           i \in { j \in CallsTo(r, "get_private_key") :
                                     calls[r][j].returned } } \ { "" } }
  \cup (IF loc[r].jwtToken # NoJWT THEN { ToString(loc[r].jwtToken) } ELSE {})
  \cup { ToString(calls[r][i].ans.token[1].Token) :
           i \in { j \in CallsTo(r, "create_token") :
                     calls[r][j].returned /\ calls[r][j].ans.token # << >> } }

Printed(r) == logger[r].printed

\* C24: no log entry emitted while handling a request contains the caller's
\* OIDC assertion, the private key, the minted JWT or the issued installation
\* token.
C24_NoSecretInLog ==
  \A r \in Reqs : \A i \in 1..Len(Printed(r)) :
    EntryWords(Printed(r)[i]) \cap SecretWords(r) = {}


\* What the caller itself wrote outside the Authorization header: the method
\* and the names and values of the query parameters.
EchoedWords(r) ==
  { ToString(req[r].method) }
  \cup UNION { { ToString(req[r].query[i][1]), ToString(req[r].query[i][2]) } :
                 i \in 1..Len(req[r].query) }

\* A secret is printed only where the handler echoes the request: none of
\* the handler's own variables that hold a secret is handed to the logger.
LoggedSecretsAreEchoes ==
  \A r \in Reqs : \A i \in 1..Len(Printed(r)) :
    (EntryWords(Printed(r)[i]) \cap SecretWords(r)) \subseteq EchoedWords(r)

\* The request repeats its assertion as the level of a scope: the entry of
\* the validation failure holds it.
C24_Witness ==
  /\ Done(MainReq)
  /\ req[MainReq].auth = << "Bearer", "tok_or" >>
  /\ req[MainReq].query = << << "contents", "tok_or" >> >>
  /\ Status(MainReq) = StatusBadRequest
  /\ Printed(MainReq)[1] =
       [ event |-> "validation_failed", repo |-> "o/r", error_type |-> "scope",
         detail |-> << "invalid", "permission:", "contents", "=", "tok_or" >> ]


\* C30: every request eventually reaches a response: once TokenHandler has
\* started for a request, it ends with exactly one response written, a 200
\* or an error status, however the collaborators answer and whether or not
\* the deadline fires.
C30_EveryRequestIsAnswered ==
  \A r \in Reqs :
    (pc[r] = "method") ~>
      (Done(r) /\ Len(resp[r]) = 1 /\ Status(r) \in HandlerStatuses)

\* The deadline fired while the lookup was outstanding: the cancelled call
\* returned and the handler ended with 503.
C30_Witness ==
  /\ Done(MainReq)
  /\ Len(calls[MainReq]) = 2
  /\ calls[MainReq][2].op = "find_installation"
  /\ calls[MainReq][2].returned
  /\ calls[MainReq][2].ans = DeadlineAnswer
  /\ ctx[MainReq] = "cancelled"
  /\ Status(MainReq) = StatusServiceUnavailable

====
